---- MODULE Spec2Model ----
(***************************************************************************)
(* Model of the idempotent reconciliation engine of pm-intake-api:         *)
(*   - the promote-then-delete workflow (promote-inbox Apps Script),       *)
(*   - the duplicate guard of the Gmail inbox ingestion route,             *)
(*   - getOrCreateCompany of the Gmail inbound route,                      *)
(*   - fetchWithRetry and createRecord under the pm-intake route.          *)
(* RecordStore (Airtable) is an external collaborator: every call to it    *)
(* answers with a nondeterministically chosen HTTP outcome.                *)
(***************************************************************************)
EXTENDS Integers, Sequences, FiniteSets, TLC

\* ------------------------------------------------------------------------
\* Bounds
\* ------------------------------------------------------------------------
NumRuns == 2          \* promotion executions (processes) that may overlap
NumReqs == 3          \* POST /api/inbox/email requests sent in sequence
NumConcurrent == 2    \* POST /api/inbox/email requests that may overlap
MaxRuns == 2          \* promotion runs started in one behaviour
MaxTasks == 11        \* tasks declared by one promotion payload
MaxDecisions == 2     \* decisions declared by one promotion payload
NumGmail == 2         \* POST /api/os/inbound/gmail requests sent in sequence
NumIntake == 2        \* POST /api/pm-intake requests sent in sequence
MaxItems == 2         \* inbox_items of one POST /api/pm-intake request

\* ------------------------------------------------------------------------
\* Program constants
\* ------------------------------------------------------------------------
batchSize == 10
MAX_RETRIES == 3

Runs == 1..NumRuns
Reqs == 1..NumReqs
GmailReqs == 1..NumGmail
Intakes == 1..NumIntake
SourceIds == {"recA", "recB"}
InitialInbox == {"recA"}

VARIABLES
    inbox,              \* Inbox table: ids of the source records present
    tasks,              \* Tasks table: ids of the records present
    decisions,          \* Decisions table: ids of the records present
    runCount,           \* promotion runs started so far
    pc,                 \* position of each run inside promoteInboxItem
    inboxRecordId,      \* argument of promoteInboxItem
    tasksToCreate,      \* payload.tasks (number of field objects)
    decisionsToCreate,  \* payload.decisions (number of field objects)
    batchStart,         \* createAirtableRecords: loop index i
    createdIds,         \* createAirtableRecords: ids collected so far
    result,             \* the result object of promoteInboxItem
    ops,                \* RecordStore calls issued by the run, in order
    effects,            \* child records the run's calls created
    deletedBy           \* whether the run's delete call removed the source

promoteVars == <<inbox, tasks, decisions, runCount, pc, inboxRecordId,
                 tasksToCreate, decisionsToCreate, batchStart, createdIds,
                 result, ops, effects, deletedBy>>

VARIABLES
    companies,          \* Companies table: set of records
    opportunities,      \* Opportunities table: set of records
    inboxItems,         \* Inbox Items table: record id -> fields
    rpc,                \* position of each request inside POST
    payload,            \* the parsed request of each POST
    normalizedDomain,   \* POST: normalizedDomain
    company,            \* POST: result of getOrCreateCompany
    duplicate,          \* POST: result of findDuplicateInboxItem
    opportunityResult,  \* POST: opportunityResult
    response            \* the NextResponse of each POST

routeVars == <<companies, opportunities, inboxItems, rpc, payload,
               normalizedDomain, company, duplicate, opportunityResult,
               response>>

VARIABLES
    inboundCompanies,     \* Client PM OS Companies table: set of records
    inboundOpportunities, \* Client PM OS Opportunities table: set of records
    gpc,                  \* position of each request inside the gmail POST
    body,                 \* the parsed body of each gmail POST
    extractedDomain,      \* gmail POST: extractedDomain
    companyResult,        \* gmail POST: what getOrCreateCompany returned
    calls,                \* RecordStore calls getOrCreateCompany issued
    gmailResponse         \* the NextResponse of each gmail POST

gmailVars == <<inboundCompanies, inboundOpportunities, gpc, body,
               extractedDomain, companyResult, calls, gmailResponse>>

VARIABLES
    pmInbox,            \* PM Inbox table: ids of the records present
    ipc,                \* position of each request inside the pm-intake POST
    intakeBody,         \* the request of each pm-intake POST
    itemIndex,          \* pm-intake POST: loop index i
    attempt,            \* fetchWithRetry: attempt
    resStatus,          \* createRecord: res.status (0 before the answer)
    trace,              \* fetches and sleeps of the current fetchWithRetry
    createdCount,       \* pm-intake POST: createdCount
    errors,             \* pm-intake POST: errors
    intakeResponse      \* the NextResponse of each pm-intake POST

intakeVars == <<pmInbox, ipc, intakeBody, itemIndex, attempt, resStatus,
                trace, createdCount, errors, intakeResponse>>

\* The placeholder and identity utilities are pure functions: the state keeps
\* the last application (which function, its argument, what it returned).
VARIABLES
    applied

utilVars == <<applied>>

vars == <<promoteVars, routeVars, gmailVars, intakeVars, utilVars>>

\* ------------------------------------------------------------------------
\* Helpers
\* ------------------------------------------------------------------------
Min(a, b) == IF a < b THEN a ELSE b

SetMax(S) == IF S = {} THEN 0 ELSE CHOOSE x \in S : \A y \in S : y <= x

\* The store assigns fresh record ids: the n ids after the largest of a table.
FreshIds(table, n) == (SetMax(table) + 1)..(SetMax(table) + n)

\* A set of consecutive ids as the list the store returns.
IdList(lo, n) == [k \in 1..n |-> lo + k - 1]

EmptyResult(id) ==
    [ok |-> FALSE, inboxRecordId |-> id, createdTasks |-> <<>>,
     createdDecisions |-> <<>>, inboxDeleted |-> FALSE, error |-> "null"]

NoEffects == [tasks |-> {}, decisions |-> {}]

\* ------------------------------------------------------------------------
\* Strings (lib/airtable-os): a string is a sequence of characters.
\* ------------------------------------------------------------------------
Null == <<"null">>

LowerOf ==
    [c \in {"A", "B", "C", "D", "E", "F", "G", "H", "I", "J", "K", "L", "M",
            "N", "O", "P", "Q", "R", "S", "T", "U", "V", "W", "X", "Y", "Z"} |->
       CASE c = "A" -> "a" [] c = "B" -> "b" [] c = "C" -> "c"
         [] c = "D" -> "d" [] c = "E" -> "e" [] c = "F" -> "f"
         [] c = "G" -> "g" [] c = "H" -> "h" [] c = "I" -> "i"
         [] c = "J" -> "j" [] c = "K" -> "k" [] c = "L" -> "l"
         [] c = "M" -> "m" [] c = "N" -> "n" [] c = "O" -> "o"
         [] c = "P" -> "p" [] c = "Q" -> "q" [] c = "R" -> "r"
         [] c = "S" -> "s" [] c = "T" -> "t" [] c = "U" -> "u"
         [] c = "V" -> "v" [] c = "W" -> "w" [] c = "X" -> "x"
         [] c = "Y" -> "y" [] OTHER -> "z"]

\* String.prototype.toLowerCase
ToLowerCase(s) ==
    [n \in 1..Len(s) |-> IF s[n] \in DOMAIN LowerOf THEN LowerOf[s[n]] ELSE s[n]]

\* String.prototype.trim
RECURSIVE Trim(_)
Trim(s) ==
    IF s = <<>> THEN s
    ELSE IF Head(s) = " " THEN Trim(Tail(s))
    ELSE IF s[Len(s)] = " " THEN Trim(SubSeq(s, 1, Len(s) - 1))
    ELSE s

StartsWith(s, prefix) ==
    /\ Len(s) >= Len(prefix)
    /\ SubSeq(s, 1, Len(prefix)) = prefix

\* String.prototype.slice(n)
Slice(s, n) == SubSeq(s, n + 1, Len(s))

\* String.prototype.indexOf, counted from 1; 0 when the character is absent.
IndexOf(s, c) ==
    IF \E n \in 1..Len(s) : s[n] = c
    THEN CHOOSE n \in 1..Len(s) : s[n] = c /\ \A m \in 1..(n - 1) : s[m] # c
    ELSE 0

\* String.prototype.lastIndexOf, counted from 1; 0 when absent.
LastIndexOf(s, c) ==
    IF \E n \in 1..Len(s) : s[n] = c
    THEN CHOOSE n \in 1..Len(s) :
           s[n] = c /\ \A m \in (n + 1)..Len(s) : s[m] # c
    ELSE 0

\* s.split(c)[0]
BeforeFirst(s, c) ==
    IF IndexOf(s, c) = 0 THEN s ELSE SubSeq(s, 1, IndexOf(s, c) - 1)

\* replace(/^https?:\/\//, "")
StripProtocol(s) ==
    IF StartsWith(s, <<"h", "t", "t", "p", ":", "/", "/">>) THEN Slice(s, 7)
    ELSE IF StartsWith(s, <<"h", "t", "t", "p", "s", ":", "/", "/">>)
    THEN Slice(s, 8)
    ELSE s

\* replace(/^www\./, "")
StripWww(s) ==
    IF StartsWith(s, <<"w", "w", "w", ".">>) THEN Slice(s, 4) ELSE s

\* normalizeDomain: lowercase, trim, remove protocol/www/paths.
normalizeDomain(input) ==
    IF input = <<>> THEN <<>>
    ELSE StripWww(BeforeFirst(BeforeFirst(
             StripProtocol(ToLowerCase(Trim(input))), "/"), "?"))

\* email.match(/<([^>]+)>/): the group of the leftmost match, Null if none.
AngleMatch(email) ==
    LET Matches(n) ==
            /\ email[n] = "<"
            /\ n + 1 <= Len(email)
            /\ email[n + 1] # ">"
            /\ \E m \in (n + 2)..Len(email) : email[m] = ">"
        starts == {n \in 1..Len(email) : Matches(n)}
    IN  IF starts = {} THEN Null
        ELSE LET n == CHOOSE x \in starts : \A y \in starts : x <= y
                 rest == Slice(email, n)
             IN  BeforeFirst(rest, ">")

\* extractDomainFromEmail: handles the "Name <email>" format.
extractDomainFromEmail(email) ==
    IF email = <<>> THEN Null
    ELSE LET emailAddr == IF AngleMatch(email) # Null
                          THEN AngleMatch(email) ELSE email
             atIndex == LastIndexOf(emailAddr, "@")
         IN  IF atIndex = 0 THEN Null
             ELSE normalizeDomain(Slice(emailAddr, atIndex))

\* ------------------------------------------------------------------------
\* Initial state: one source record waits in the Inbox, no children exist,
\* no promotion is running.
\* ------------------------------------------------------------------------
InitPromote ==
    /\ inbox = InitialInbox
    /\ tasks = {}
    /\ decisions = {}
    /\ runCount = 0
    /\ pc = [p \in Runs |-> "idle"]
    /\ inboxRecordId = [p \in Runs |-> "recA"]
    /\ tasksToCreate = [p \in Runs |-> 0]
    /\ decisionsToCreate = [p \in Runs |-> 0]
    /\ batchStart = [p \in Runs |-> 0]
    /\ createdIds = [p \in Runs |-> <<>>]
    /\ result = [p \in Runs |-> EmptyResult("recA")]
    /\ ops = [p \in Runs |-> <<>>]
    /\ effects = [p \in Runs |-> NoEffects]
    /\ deletedBy = [p \in Runs |-> FALSE]

NewDomainEmail == <<"J", " ", "<", "j", "@", "W", "W", "W", ".", "X", ".", "i", "o", ">">>
KnownDomainEmail == <<"k", "@", "o", "l", "d", ".", "i", "o">>
NoDomainEmail == <<"n", "o", "b", "o", "d", "y">>

None == [id |-> 0]

MessageIds == {"msg-123", "msg-456"}
Modes == {"opportunity", "company_only", "log_only"}

\* A request that passes every check of POST; mode "" stands for an absent
\* mode field.
ValidPayload(messageId, email, mode) ==
    [secret |-> TRUE, json |-> TRUE, gmailMessageId |-> messageId,
     gmailThreadId |-> "thr-1", fromEmail |-> email, subject |-> "Hello",
     mode |-> mode]

ValidPayloads(emails) ==
    {ValidPayload(m, e, md) : m \in MessageIds, e \in emails,
                              md \in {"", "company_only", "log_only"}}

\* One request for each way POST rejects a request before any RecordStore
\* call.
RejectedPayloads ==
    LET ok == ValidPayload("msg-123", NewDomainEmail, "")
    IN  {[ok EXCEPT !.secret = FALSE],
         [ok EXCEPT !.json = FALSE],
         [ok EXCEPT !.gmailMessageId = ""],
         [ok EXCEPT !.gmailThreadId = ""],
         [ok EXCEPT !.fromEmail = <<>>],
         [ok EXCEPT !.subject = ""],
         [ok EXCEPT !.fromEmail = NoDomainEmail]}

\* Deliveries of two messages of one sender, in every mode.
Deliveries == ValidPayloads({NewDomainEmail}) \cup RejectedPayloads

NoResponse == [code |-> 0, ok |-> FALSE, status |-> "", inboxItem |-> 0,
               error |-> ""]

\* A company record written before the Normalized Domain field existed: only
\* its Domain field holds the domain.
LegacyCompany ==
    [id |-> 1, name |-> "Old", domain |-> <<"o", "l", "d", ".", "i", "o">>,
     normalizedDomain |-> <<>>]

InitRoute ==
    /\ companies = {LegacyCompany}
    /\ opportunities = {}
    /\ inboxItems = <<>>
    /\ rpc = [r \in Reqs |-> "idle"]
    /\ payload = [r \in Reqs |-> ValidPayload("msg-123", NewDomainEmail, "")]
    /\ normalizedDomain = [r \in Reqs |-> <<>>]
    /\ company = [r \in Reqs |-> None]
    /\ duplicate = [r \in Reqs |-> None]
    /\ opportunityResult = [r \in Reqs |-> None]
    /\ response = [r \in Reqs |-> NoResponse]

\* Bodies of POST /api/os/inbound/gmail: "" stands for an absent field.
GmailBody(domain, contactEmail, opportunityName) ==
    [auth |-> TRUE, json |-> TRUE, domain |-> domain,
     contactEmail |-> contactEmail, opportunityName |-> opportunityName]

ExplicitDomain == <<"W", "W", "W", ".", "X", ".", "i", "o">>
ProtocolOnly == <<"h", "t", "t", "p", "s", ":", "/", "/">>
WwwOnly == <<"w", "w", "w", ".">>

\* Requests naming the domain x.io by sender or explicitly, a known legacy
\* domain, explicit domains that normalize to the empty string, and one
\* request for each way POST rejects a request before getOrCreateCompany.
GmailBodies ==
    {GmailBody(<<>>, NewDomainEmail, ""),
     GmailBody(ExplicitDomain, <<>>, "Deal"),
     GmailBody(<<>>, KnownDomainEmail, ""),
     GmailBody(ProtocolOnly, NewDomainEmail, ""),
     GmailBody(WwwOnly, <<>>, ""),
     [GmailBody(<<>>, NewDomainEmail, "") EXCEPT !.auth = FALSE],
     [GmailBody(<<>>, NewDomainEmail, "") EXCEPT !.json = FALSE],
     GmailBody(<<>>, <<>>, ""),
     GmailBody(<<>>, NoDomainEmail, "")}

NoResult == [recordId |-> 0, created |-> FALSE, matchedBy |-> ""]

NoGmailResponse ==
    [code |-> 0, ok |-> FALSE, company |-> NoResult, opportunity |-> 0,
     error |-> ""]

\* A company written before normalizedDomain_text existed: the field is
\* absent, only the domain field holds the domain.
LegacyInboundCompany ==
    [id |-> 1, name |-> "Old", domain |-> <<"o", "l", "d", ".", "i", "o">>,
     normalizedDomain_text |-> Null]

InitGmail ==
    /\ inboundCompanies = {LegacyInboundCompany}
    /\ inboundOpportunities = {}
    /\ gpc = [g \in GmailReqs |-> "idle"]
    /\ body = [g \in GmailReqs |-> GmailBody(<<>>, NewDomainEmail, "")]
    /\ extractedDomain = [g \in GmailReqs |-> <<>>]
    /\ companyResult = [g \in GmailReqs |-> NoResult]
    /\ calls = [g \in GmailReqs |-> <<>>]
    /\ gmailResponse = [g \in GmailReqs |-> NoGmailResponse]

\* A request of POST /api/pm-intake: items is inbox_items.length of a body
\* that passes requestSchema.
IntakeRequest(items) ==
    [token |-> TRUE, json |-> TRUE, valid |-> TRUE, items |-> items]

IntakeRequests ==
    {IntakeRequest(n) : n \in 1..MaxItems} \cup
    {[IntakeRequest(1) EXCEPT !.token = FALSE],
     [IntakeRequest(1) EXCEPT !.json = FALSE],
     [IntakeRequest(1) EXCEPT !.valid = FALSE]}

NoIntakeResponse ==
    [code |-> 0, status |-> "", createdCount |-> 0, errors |-> <<>>,
     error |-> ""]

InitIntake ==
    /\ pmInbox = {}
    /\ ipc = [i \in Intakes |-> "idle"]
    /\ intakeBody = [i \in Intakes |-> IntakeRequest(1)]
    /\ itemIndex = [i \in Intakes |-> 0]
    /\ attempt = [i \in Intakes |-> 1]
    /\ resStatus = [i \in Intakes |-> 0]
    /\ trace = [i \in Intakes |-> <<>>]
    /\ createdCount = [i \in Intakes |-> 0]
    /\ errors = [i \in Intakes |-> <<>>]
    /\ intakeResponse = [i \in Intakes |-> NoIntakeResponse]

NotApplied == [fn |-> "none", arg |-> <<>>, ret |-> <<>>]

InitUtil == applied = NotApplied

Init == InitPromote /\ InitRoute /\ InitGmail /\ InitIntake /\ InitUtil

\* ------------------------------------------------------------------------
\* RecordStore outcomes
\* ------------------------------------------------------------------------
\* HTTP codes getAirtableRecord can see for a record id.
GetCodes(id) == IF id \in inbox THEN {200, 500} ELSE {404, 500}

\* Mutation: RecordStore answers 200 to the delete of a record that is gone.
DeleteCodesOfMissing(id) == {200, 500}

\* HTTP codes deleteAirtableRecord can see for a record id.
DeleteCodes(id) == IF id \in inbox THEN {200, 500} ELSE {404, 500}

\* createAirtableRecords: the slice records.slice(i, i + batchSize).
BatchLen(requested, start) == Min(batchSize, requested - start)

\* createAirtableRecords: the for loop ends when i + batchSize >= length.
LoopDone(requested, start) == start + batchSize >= requested

\* Mutation: a batch that returned fewer ids than requested passes the check.
CountMatchesAtMost(created, requested) == Len(created) <= requested

\* promoteInboxItem: createdIds.length !== toCreate.length is a mismatch.
CountMatches(created, requested) == Len(created) = requested

\* Mutation: step 4 lets an empty promotion through.
NothingCreatedIgnored(res) == FALSE

\* promoteInboxItem step 4: totalCreated === 0 rejects the request.
NothingCreated(res) == Len(res.createdTasks) + Len(res.createdDecisions) = 0

\* ------------------------------------------------------------------------
\* promoteInboxItem
\* ------------------------------------------------------------------------
\* Mutation: the failure exit removes the Inbox record ("delete in catch").
ReturnErrorDeleting(p, err, call) ==
    /\ result' = [result EXCEPT ![p].error = err]
    /\ pc' = [pc EXCEPT ![p] = "done"]
    /\ ops' = [ops EXCEPT ![p] = (@ \o call) \o <<"delete">>]
    /\ inbox' = inbox \ {inboxRecordId[p]}
    /\ deletedBy' = [deletedBy EXCEPT ![p] = inboxRecordId[p] \in inbox]

\* Mutation: the failure exit answers with a fresh error object and forgets
\* the ids collected so far.
ReturnErrorFresh(p, err, call) ==
    /\ result' = [result EXCEPT
                    ![p] = [EmptyResult(inboxRecordId[p]) EXCEPT !.error = err]]
    /\ pc' = [pc EXCEPT ![p] = "done"]
    /\ ops' = [ops EXCEPT ![p] = @ \o call]
    /\ UNCHANGED <<inbox, deletedBy>>

\* An early "return result" of promoteInboxItem with result.error set: the
\* run ends, nothing is written to RecordStore.
\* "call" lists the RecordStore call the failed step had issued.
ReturnError(p, err, call) ==
    /\ result' = [result EXCEPT ![p].error = err]
    /\ pc' = [pc EXCEPT ![p] = "done"]
    /\ ops' = [ops EXCEPT ![p] = @ \o call]
    /\ UNCHANGED <<inbox, deletedBy>>

\* doPost calls promoteInboxItem(inboxRecordId, payload).
StartRun(p) ==
    /\ UNCHANGED <<routeVars, gmailVars, intakeVars, utilVars>>
    /\ pc[p] = "idle"
    /\ runCount < MaxRuns
    /\ \E id \in SourceIds, nT \in 0..MaxTasks, nD \in 0..MaxDecisions :
         /\ inboxRecordId' = [inboxRecordId EXCEPT ![p] = id]
         /\ tasksToCreate' = [tasksToCreate EXCEPT ![p] = nT]
         /\ decisionsToCreate' = [decisionsToCreate EXCEPT ![p] = nD]
         /\ result' = [result EXCEPT ![p] = EmptyResult(id)]
    /\ runCount' = runCount + 1
    /\ pc' = [pc EXCEPT ![p] = "step1"]
    /\ batchStart' = [batchStart EXCEPT ![p] = 0]
    /\ createdIds' = [createdIds EXCEPT ![p] = <<>>]
    /\ ops' = [ops EXCEPT ![p] = <<>>]
    /\ effects' = [effects EXCEPT ![p] = NoEffects]
    /\ deletedBy' = [deletedBy EXCEPT ![p] = FALSE]
    /\ UNCHANGED <<inbox, tasks, decisions>>

\* STEP 1: validate that the Inbox record exists.
Step1Validate(p) ==
    /\ UNCHANGED <<routeVars, gmailVars, intakeVars, utilVars>>
    /\ pc[p] = "step1"
    /\ \E code \in GetCodes(inboxRecordId[p]) :
         CASE code = 200 -> /\ pc' = [pc EXCEPT ![p] = "step2"]
                            /\ ops' = [ops EXCEPT ![p] = Append(@, "get")]
                            /\ UNCHANGED <<result, inbox, deletedBy>>
           [] code = 404 -> ReturnError(p, "Inbox record not found",
                                        <<"get">>)
           [] OTHER      -> ReturnError(p, "Failed to fetch Inbox record",
                                        <<"get">>)
    /\ UNCHANGED <<tasks, decisions, runCount, inboxRecordId, tasksToCreate,
                   decisionsToCreate, batchStart, createdIds, effects>>

\* STEP 2 with no tasks: tasksToCreate.length > 0 is false, the step is
\* skipped.
Step2Skip(p) ==
    /\ UNCHANGED <<routeVars, gmailVars, intakeVars, utilVars>>
    /\ pc[p] = "step2"
    /\ tasksToCreate[p] = 0
    /\ pc' = [pc EXCEPT ![p] = "step3"]
    /\ UNCHANGED <<inbox, tasks, decisions, runCount, inboxRecordId,
                   tasksToCreate, decisionsToCreate, batchStart, createdIds,
                   result, ops, effects, deletedBy>>

\* STEP 2: one POST of createAirtableRecords(TASKS_TABLE, tasksToCreate).
\* A non-200 answer throws (some records of the batch may exist all the
\* same); a 200 answer returns k ids; after the last batch the count check
\* of promoteInboxItem decides.
Step2CreateTasks(p) ==
    /\ UNCHANGED <<routeVars, gmailVars, intakeVars, utilVars>>
    /\ pc[p] = "step2"
    /\ tasksToCreate[p] > 0
    /\ \E code \in {200, 500},
          k \in 0..BatchLen(tasksToCreate[p], batchStart[p]) :
         LET fresh == FreshIds(tasks, k)
             ids == createdIds[p] \o IdList(SetMax(tasks) + 1, k)
         IN  /\ tasks' = tasks \cup fresh
             /\ effects' = [effects EXCEPT ![p].tasks = @ \cup fresh]
             /\ IF code # 200
                THEN /\ ReturnError(p, "Task creation failed", <<"createTasks">>)
                     /\ UNCHANGED <<createdIds, batchStart>>
                ELSE IF ~LoopDone(tasksToCreate[p], batchStart[p])
                THEN /\ createdIds' = [createdIds EXCEPT ![p] = ids]
                     /\ batchStart' = [batchStart EXCEPT ![p] = @ + batchSize]
                     /\ ops' = [ops EXCEPT ![p] = Append(@, "createTasks")]
                     /\ UNCHANGED <<pc, result, inbox, deletedBy>>
                ELSE /\ createdIds' = [createdIds EXCEPT ![p] = <<>>]
                     /\ batchStart' = [batchStart EXCEPT ![p] = 0]
                     /\ IF CountMatches(ids, tasksToCreate[p])
                        THEN /\ result' = [result EXCEPT ![p].createdTasks = ids]
                             /\ pc' = [pc EXCEPT ![p] = "step3"]
                             /\ ops' = [ops EXCEPT
                                          ![p] = Append(@, "createTasks")]
                             /\ UNCHANGED <<inbox, deletedBy>>
                        ELSE ReturnError(p, "Task creation mismatch",
                                         <<"createTasks">>)
    /\ UNCHANGED <<decisions, runCount, inboxRecordId, tasksToCreate,
                   decisionsToCreate>>

\* STEP 3 with no decisions: the step is skipped.
Step3Skip(p) ==
    /\ UNCHANGED <<routeVars, gmailVars, intakeVars, utilVars>>
    /\ pc[p] = "step3"
    /\ decisionsToCreate[p] = 0
    /\ pc' = [pc EXCEPT ![p] = "step4"]
    /\ UNCHANGED <<inbox, tasks, decisions, runCount, inboxRecordId,
                   tasksToCreate, decisionsToCreate, batchStart, createdIds,
                   result, ops, effects, deletedBy>>

\* STEP 3: one POST of createAirtableRecords(DECISIONS_TABLE, ...).
Step3CreateDecisions(p) ==
    /\ UNCHANGED <<routeVars, gmailVars, intakeVars, utilVars>>
    /\ pc[p] = "step3"
    /\ decisionsToCreate[p] > 0
    /\ \E code \in {200, 500},
          k \in 0..BatchLen(decisionsToCreate[p], batchStart[p]) :
         LET fresh == FreshIds(decisions, k)
             ids == createdIds[p] \o IdList(SetMax(decisions) + 1, k)
         IN  /\ decisions' = decisions \cup fresh
             /\ effects' = [effects EXCEPT ![p].decisions = @ \cup fresh]
             /\ IF code # 200
                THEN /\ ReturnError(p, "Decision creation failed", <<"createDecisions">>)
                     /\ UNCHANGED <<createdIds, batchStart>>
                ELSE IF ~LoopDone(decisionsToCreate[p], batchStart[p])
                THEN /\ createdIds' = [createdIds EXCEPT ![p] = ids]
                     /\ batchStart' = [batchStart EXCEPT ![p] = @ + batchSize]
                     /\ ops' = [ops EXCEPT ![p] = Append(@, "createDecisions")]
                     /\ UNCHANGED <<pc, result, inbox, deletedBy>>
                ELSE /\ createdIds' = [createdIds EXCEPT ![p] = <<>>]
                     /\ batchStart' = [batchStart EXCEPT ![p] = 0]
                     /\ IF CountMatches(ids, decisionsToCreate[p])
                        THEN /\ result' = [result EXCEPT
                                             ![p].createdDecisions = ids]
                             /\ pc' = [pc EXCEPT ![p] = "step4"]
                             /\ ops' = [ops EXCEPT
                                          ![p] = Append(@, "createDecisions")]
                             /\ UNCHANGED <<inbox, deletedBy>>
                        ELSE ReturnError(p, "Decision creation mismatch",
                                         <<"createDecisions">>)
    /\ UNCHANGED <<tasks, runCount, inboxRecordId, tasksToCreate,
                   decisionsToCreate>>

\* STEP 4: at least one record must have been created.
Step4Validate(p) ==
    /\ UNCHANGED <<routeVars, gmailVars, intakeVars, utilVars>>
    /\ pc[p] = "step4"
    /\ IF NothingCreated(result[p])
       THEN ReturnError(p, "No tasks or decisions to create - nothing to promote", <<>>)
       ELSE /\ pc' = [pc EXCEPT ![p] = "step5"]
            /\ UNCHANGED <<result, inbox, ops, deletedBy>>
    /\ UNCHANGED <<tasks, decisions, runCount, inboxRecordId, tasksToCreate,
                   decisionsToCreate, batchStart, createdIds, effects>>

\* Mutation: a failed delete turns the response into a failure.
DeleteFailedNotOk(res) ==
    [res EXCEPT !.error = "Records created but inbox deletion failed"]

\* The catch block of step 5: the delete threw; the records exist, so the
\* response stays ok.
DeleteFailed(res) ==
    [res EXCEPT !.error = "Records created but inbox deletion failed",
                !.ok = TRUE]

\* STEP 5: DELETE the Inbox record, then SUCCESS.
Step5Delete(p) ==
    /\ UNCHANGED <<routeVars, gmailVars, intakeVars, utilVars>>
    /\ pc[p] = "step5"
    /\ ops' = [ops EXCEPT ![p] = Append(@, "delete")]
    /\ \E code \in DeleteCodes(inboxRecordId[p]) :
         IF code = 200
         THEN /\ inbox' = inbox \ {inboxRecordId[p]}
              /\ deletedBy' = [deletedBy EXCEPT ![p] = TRUE]
              /\ result' = [result EXCEPT ![p].inboxDeleted = TRUE,
                                          ![p].ok = TRUE]
         ELSE /\ result' = [result EXCEPT ![p] = DeleteFailed(@)]
              /\ UNCHANGED <<inbox, deletedBy>>
    /\ pc' = [pc EXCEPT ![p] = "done"]
    /\ UNCHANGED <<tasks, decisions, runCount, inboxRecordId, tasksToCreate,
                   decisionsToCreate, batchStart, createdIds, effects>>

\* The execution dies between two RecordStore calls (script timeout, quota,
\* platform failure): no response, no further step.
CrashBetweenCalls(p) ==
    /\ UNCHANGED <<routeVars, gmailVars, intakeVars, utilVars>>
    /\ pc[p] \in {"step1", "step2", "step3", "step4", "step5"}
    /\ pc' = [pc EXCEPT ![p] = "crashed"]
    /\ UNCHANGED <<inbox, tasks, decisions, runCount, inboxRecordId,
                   tasksToCreate, decisionsToCreate, batchStart, createdIds,
                   result, ops, effects, deletedBy>>

\* The execution dies while a create call is in flight: RecordStore may have
\* created any part of the batch, the run never sees the answer.
CrashDuringCreate(p) ==
    /\ UNCHANGED <<routeVars, gmailVars, intakeVars, utilVars>>
    /\ \/ /\ pc[p] = "step2"
          /\ tasksToCreate[p] > 0
          /\ ops' = [ops EXCEPT ![p] = Append(@, "createTasks")]
          /\ \E k \in 0..BatchLen(tasksToCreate[p], batchStart[p]) :
               /\ tasks' = tasks \cup FreshIds(tasks, k)
               /\ effects' = [effects EXCEPT
                                ![p].tasks = @ \cup FreshIds(tasks, k)]
          /\ UNCHANGED decisions
       \/ /\ pc[p] = "step3"
          /\ decisionsToCreate[p] > 0
          /\ ops' = [ops EXCEPT ![p] = Append(@, "createDecisions")]
          /\ \E k \in 0..BatchLen(decisionsToCreate[p], batchStart[p]) :
               /\ decisions' = decisions \cup FreshIds(decisions, k)
               /\ effects' = [effects EXCEPT
                                ![p].decisions = @ \cup FreshIds(decisions, k)]
          /\ UNCHANGED tasks
    /\ pc' = [pc EXCEPT ![p] = "crashed"]
    /\ UNCHANGED <<inbox, runCount, inboxRecordId, tasksToCreate,
                   decisionsToCreate, batchStart, createdIds, result,
                   deletedBy>>

\* The execution dies while the delete call is in flight: the record may or
\* may not be gone.
CrashDuringDelete(p) ==
    /\ UNCHANGED <<routeVars, gmailVars, intakeVars, utilVars>>
    /\ pc[p] = "step5"
    /\ ops' = [ops EXCEPT ![p] = Append(@, "delete")]
    /\ \/ /\ inboxRecordId[p] \in inbox
          /\ inbox' = inbox \ {inboxRecordId[p]}
          /\ deletedBy' = [deletedBy EXCEPT ![p] = TRUE]
       \/ UNCHANGED <<inbox, deletedBy>>
    /\ pc' = [pc EXCEPT ![p] = "crashed"]
    /\ UNCHANGED <<tasks, decisions, runCount, inboxRecordId, tasksToCreate,
                   decisionsToCreate, batchStart, createdIds, result,
                   effects>>

\* doPost: jsonResponse(result, result.ok ? 200 : 500).
doPostStatus(res) == IF res.ok THEN 200 ELSE 500

\* doPost returns jsonResponse(result), or the crashed execution is gone: the
\* locals of the execution are dropped and the next request can be served.
EndExecution(p) ==
    /\ UNCHANGED <<routeVars, gmailVars, intakeVars, utilVars>>
    /\ pc[p] \in {"done", "crashed"}
    /\ pc' = [pc EXCEPT ![p] = "idle"]
    /\ inboxRecordId' = [inboxRecordId EXCEPT ![p] = "recA"]
    /\ tasksToCreate' = [tasksToCreate EXCEPT ![p] = 0]
    /\ decisionsToCreate' = [decisionsToCreate EXCEPT ![p] = 0]
    /\ batchStart' = [batchStart EXCEPT ![p] = 0]
    /\ createdIds' = [createdIds EXCEPT ![p] = <<>>]
    /\ result' = [result EXCEPT ![p] = EmptyResult("recA")]
    /\ ops' = [ops EXCEPT ![p] = <<>>]
    /\ effects' = [effects EXCEPT ![p] = NoEffects]
    /\ deletedBy' = [deletedBy EXCEPT ![p] = FALSE]
    /\ UNCHANGED <<inbox, tasks, decisions, runCount>>

promoteInboxItem(p) ==
    \/ StartRun(p)
    \/ EndExecution(p)
    \/ Step1Validate(p)
    \/ Step2Skip(p)
    \/ Step2CreateTasks(p)
    \/ Step3Skip(p)
    \/ Step3CreateDecisions(p)
    \/ Step4Validate(p)
    \/ Step5Delete(p)
    \/ CrashBetweenCalls(p)
    \/ CrashDuringCreate(p)
    \/ CrashDuringDelete(p)

\* Promotion runs one after the other: the single execution 1 is started
\* again after it ended.
NextPromote == promoteInboxItem(1)

SpecPromote == Init /\ [][NextPromote]_vars

DupTasks == 1         \* tasks declared by a request that is sent twice
DupDecisions == 1     \* decisions declared by a request that is sent twice

\* doPost serves a request for the source record "recA" while another
\* execution may be serving a request with the same source and payload:
\* Apps Script runs the executions of a web app side by side, and doPost
\* takes no lock.
StartDuplicate(p) ==
    /\ UNCHANGED <<routeVars, gmailVars, intakeVars, utilVars>>
    /\ pc[p] = "idle"
    /\ runCount < MaxRuns
    /\ \E nT \in 0..DupTasks, nD \in 0..DupDecisions :
         /\ \A q \in Runs :
               pc[q] # "idle" =>
                  (tasksToCreate[q] = nT /\ decisionsToCreate[q] = nD)
         /\ tasksToCreate' = [tasksToCreate EXCEPT ![p] = nT]
         /\ decisionsToCreate' = [decisionsToCreate EXCEPT ![p] = nD]
    /\ inboxRecordId' = [inboxRecordId EXCEPT ![p] = "recA"]
    /\ result' = [result EXCEPT ![p] = EmptyResult("recA")]
    /\ runCount' = runCount + 1
    /\ pc' = [pc EXCEPT ![p] = "step1"]
    /\ batchStart' = [batchStart EXCEPT ![p] = 0]
    /\ createdIds' = [createdIds EXCEPT ![p] = <<>>]
    /\ ops' = [ops EXCEPT ![p] = <<>>]
    /\ effects' = [effects EXCEPT ![p] = NoEffects]
    /\ deletedBy' = [deletedBy EXCEPT ![p] = FALSE]
    /\ UNCHANGED <<inbox, tasks, decisions>>

\* One execution of a duplicate request, from doPost to its answer.
promoteDuplicate(p) ==
    \/ StartDuplicate(p)
    \/ Step1Validate(p)
    \/ Step2Skip(p)
    \/ Step2CreateTasks(p)
    \/ Step3Skip(p)
    \/ Step3CreateDecisions(p)
    \/ Step4Validate(p)
    \/ Step5Delete(p)

\* Duplicate promotion requests served by overlapping executions.
NextPromoteConcurrent == \E p \in Runs : promoteDuplicate(p)

SpecPromoteConcurrent == Init /\ [][NextPromoteConcurrent]_vars

\* The caller sends the same request again after the previous execution
\* has answered.
StartRetry(p) ==
    /\ \A q \in Runs : q < p => pc[q] = "done"
    /\ StartDuplicate(p)

\* One execution of a request that is sent again until it succeeds.
promoteRetry(p) ==
    \/ StartRetry(p)
    \/ Step1Validate(p)
    \/ Step2Skip(p)
    \/ Step2CreateTasks(p)
    \/ Step3Skip(p)
    \/ Step3CreateDecisions(p)
    \/ Step4Validate(p)
    \/ Step5Delete(p)

NextPromoteRetry == \E p \in Runs : promoteRetry(p)

SpecPromoteRetry == Init /\ [][NextPromoteRetry]_vars

\* ------------------------------------------------------------------------
\* POST /api/inbox/email
\* ------------------------------------------------------------------------
RecordIds(table) == {rec.id : rec \in table}

\* errorResponse(traceId, error, status)
ErrorResponse(error, status) ==
    [code |-> status, ok |-> FALSE, status |-> "error", inboxItem |-> 0,
     error |-> error]

\* jsonResponse({ok: true, status, inboxItem: {id}})
OkResponse(status, id) ==
    [code |-> 200, ok |-> TRUE, status |-> status, inboxItem |-> id,
     error |-> ""]

\* The catch block of POST: any thrown error becomes a 500 response.
Throw(r, message) ==
    /\ response' = [response EXCEPT ![r] = ErrorResponse(message, 500)]
    /\ rpc' = [rpc EXCEPT ![r] = "done"]

\* The checks of POST before the first RecordStore call.
Rejection(pl) ==
    IF ~pl.secret THEN ErrorResponse("Unauthorized", 401)
    ELSE IF ~pl.json THEN ErrorResponse("Invalid JSON body", 400)
    ELSE IF pl.gmailMessageId = ""
    THEN ErrorResponse("Missing gmailMessageId", 400)
    ELSE IF pl.gmailThreadId = ""
    THEN ErrorResponse("Missing gmailThreadId", 400)
    ELSE IF pl.fromEmail = <<>> THEN ErrorResponse("Missing from.email", 400)
    ELSE IF pl.subject = "" THEN ErrorResponse("Missing subject", 400)
    ELSE IF extractDomainFromEmail(pl.fromEmail) \in {Null, <<>>}
    THEN ErrorResponse("Cannot extract domain from sender email", 400)
    ELSE NoResponse

\* const mode = payload.mode || "opportunity"
ModeOf(pl) == IF pl.mode = "" THEN "opportunity" ELSE pl.mode

\* POST up to the first await: auth, parsing, validation, domain.
ReceivePost(r, requests) ==
    /\ rpc[r] = "idle"
    /\ \E pl \in requests :
         /\ payload' = [payload EXCEPT ![r] = pl]
         /\ IF Rejection(pl) # NoResponse
            THEN /\ response' = [response EXCEPT ![r] = Rejection(pl)]
                 /\ rpc' = [rpc EXCEPT ![r] = "done"]
                 /\ UNCHANGED normalizedDomain
            ELSE /\ normalizedDomain' =
                      [normalizedDomain EXCEPT
                         ![r] = normalizeDomain(
                                  extractDomainFromEmail(pl.fromEmail))]
                 /\ rpc' = [rpc EXCEPT ![r] = "companyByNormalized"]
                 /\ UNCHANGED response
    /\ UNCHANGED <<promoteVars, gmailVars, intakeVars, utilVars>>
    /\ UNCHANGED <<companies, opportunities, inboxItems, company, duplicate,
                   opportunityResult>>

\* getOrCreateCompany: search by the Normalized Domain field.
CompanyByNormalizedDomain(r) ==
    /\ rpc[r] = "companyByNormalized"
    /\ LET domain == normalizeDomain(normalizedDomain[r])
           found == {c \in companies : c.normalizedDomain = domain}
       IN  \/ /\ Throw(r, "Airtable find failed")
              /\ UNCHANGED company
           \/ /\ domain = <<>>
              /\ Throw(r, "Cannot determine company domain")
              /\ UNCHANGED company
           \/ /\ domain # <<>>
              /\ found # {}
              /\ \E existing \in found :
                   company' = [company EXCEPT
                                 ![r] = [id |-> existing.id, created |-> FALSE]]
              /\ rpc' = [rpc EXCEPT ![r] = "findDuplicate"]
              /\ UNCHANGED response
           \/ /\ domain # <<>>
              /\ found = {}
              /\ rpc' = [rpc EXCEPT ![r] = "companyByDomain"]
              /\ UNCHANGED <<response, company>>
    /\ UNCHANGED <<promoteVars, gmailVars, intakeVars, utilVars>>
    /\ UNCHANGED <<companies, opportunities, inboxItems, payload,
                   normalizedDomain, duplicate, opportunityResult>>

\* getOrCreateCompany: fallback search by the Domain field.
CompanyByDomain(r) ==
    /\ rpc[r] = "companyByDomain"
    /\ LET domain == normalizeDomain(normalizedDomain[r])
           found == {c \in companies : c.domain = domain}
       IN  \/ /\ Throw(r, "Airtable find failed")
              /\ UNCHANGED company
           \/ /\ found # {}
              /\ \E existing \in found :
                   company' = [company EXCEPT
                                 ![r] = [id |-> existing.id, created |-> FALSE]]
              /\ rpc' = [rpc EXCEPT ![r] = "findDuplicate"]
              /\ UNCHANGED response
           \/ /\ found = {}
              /\ rpc' = [rpc EXCEPT ![r] = "createCompany"]
              /\ UNCHANGED <<response, company>>
    /\ UNCHANGED <<promoteVars, gmailVars, intakeVars, utilVars>>
    /\ UNCHANGED <<companies, opportunities, inboxItems, payload,
                   normalizedDomain, duplicate, opportunityResult>>

\* Mutation: the created Company is reported as an existing one.
CreateCompanyAsExisting(r) ==
    /\ rpc[r] = "createCompany"
    /\ LET domain == normalizeDomain(normalizedDomain[r])
           id == SetMax(RecordIds(companies)) + 1
       IN  \/ /\ Throw(r, "Airtable create failed")
              /\ UNCHANGED <<company, companies>>
           \/ /\ companies' = companies \cup
                    {[id |-> id, name |-> "From Name", domain |-> domain,
                      normalizedDomain |-> domain]}
              /\ company' = [company EXCEPT
                               ![r] = [id |-> id, created |-> FALSE]]
              /\ rpc' = [rpc EXCEPT ![r] = "findDuplicate"]
              /\ UNCHANGED response
    /\ UNCHANGED <<promoteVars, gmailVars, intakeVars, utilVars>>
    /\ UNCHANGED <<opportunities, inboxItems, payload, normalizedDomain,
                   duplicate, opportunityResult>>

\* getOrCreateCompany: not found, create the Company.
CreateCompany(r) ==
    /\ rpc[r] = "createCompany"
    /\ LET domain == normalizeDomain(normalizedDomain[r])
           id == SetMax(RecordIds(companies)) + 1
       IN  \/ /\ Throw(r, "Airtable create failed")
              /\ UNCHANGED <<company, companies>>
           \/ /\ companies' = companies \cup
                    {[id |-> id, name |-> "From Name", domain |-> domain,
                      normalizedDomain |-> domain]}
              /\ company' = [company EXCEPT
                               ![r] = [id |-> id, created |-> TRUE]]
              /\ rpc' = [rpc EXCEPT ![r] = "findDuplicate"]
              /\ UNCHANGED response
    /\ UNCHANGED <<promoteVars, gmailVars, intakeVars, utilVars>>
    /\ UNCHANGED <<opportunities, inboxItems, payload, normalizedDomain,
                   duplicate, opportunityResult>>

\* Mutation: the duplicate lookup never matches.
MatchesMessageIdNever(fields, gmailMessageId) == FALSE

\* findDuplicateInboxItem: the formula {Gmail Message ID}="...".
MatchesMessageId(fields, gmailMessageId) ==
    fields.gmailMessageId = gmailMessageId

\* Step 2 of POST: findDuplicateInboxItem; without a duplicate the modes
\* "log_only" and "company_only" go on to create the Inbox Item, the default
\* mode looks for the thread's opportunity first.
FindDuplicateInboxItem(r) ==
    /\ rpc[r] = "findDuplicate"
    /\ LET found == {id \in DOMAIN inboxItems :
                       MatchesMessageId(inboxItems[id],
                                        payload[r].gmailMessageId)}
       IN  \/ /\ Throw(r, "Airtable find failed")
              /\ UNCHANGED duplicate
           \/ /\ found # {}
              /\ \E id \in found :
                   duplicate' = [duplicate EXCEPT
                      ![r] = [id |-> id,
                              activityLog |-> inboxItems[id].activityLog]]
              /\ rpc' = [rpc EXCEPT ![r] = "appendActivityLog"]
              /\ UNCHANGED response
           \/ /\ found = {}
              /\ rpc' = [rpc EXCEPT
                   ![r] = IF ModeOf(payload[r]) \in {"log_only", "company_only"}
                          THEN "createInboxItem"
                          ELSE "findOpportunity"]
              /\ UNCHANGED <<response, duplicate>>
    /\ UNCHANGED <<promoteVars, gmailVars, intakeVars, utilVars>>
    /\ UNCHANGED <<companies, opportunities, inboxItems, payload,
                   normalizedDomain, company, opportunityResult>>

\* Mutation: the new entry replaces the log.
UpdatedLogReplaced(existingLog, newEntry) == <<newEntry>>

\* appendActivityLog: existingLog ? `${existingLog}\n${newEntry}` : newEntry.
\* A log is the list of its lines.
UpdatedLog(existingLog, newEntry) ==
    IF existingLog # <<>> THEN existingLog \o <<newEntry>> ELSE <<newEntry>>

\* The duplicate branch of POST: appendActivityLog (updateRecord), then the
\* "duplicate" response with the existing id.
AppendActivityLog(r) ==
    /\ rpc[r] = "appendActivityLog"
    /\ \/ /\ Throw(r, "Airtable update failed")
          /\ UNCHANGED inboxItems
       \/ /\ inboxItems' =
               [inboxItems EXCEPT
                  ![duplicate[r].id].activityLog =
                     UpdatedLog(duplicate[r].activityLog,
                                [entry |-> "Duplicate ingestion attempt",
                                 traceId |-> r])]
          /\ response' = [response EXCEPT
                            ![r] = OkResponse("duplicate", duplicate[r].id)]
          /\ rpc' = [rpc EXCEPT ![r] = "done"]
    /\ UNCHANGED <<promoteVars, gmailVars, intakeVars, utilVars>>
    /\ UNCHANGED <<companies, opportunities, payload, normalizedDomain,
                   company, duplicate, opportunityResult>>

\* Opportunity mode: findOpportunityByThreadId.
FindOpportunityByThreadId(r) ==
    /\ rpc[r] = "findOpportunity"
    /\ LET found == {o \in opportunities :
                       o.gmailThreadId = payload[r].gmailThreadId}
       IN  \/ /\ Throw(r, "Airtable find failed")
              /\ UNCHANGED opportunityResult
           \/ /\ found # {}
              /\ \E existingOpp \in found :
                   opportunityResult' = [opportunityResult EXCEPT
                      ![r] = [id |-> existingOpp.id, attached |-> TRUE]]
              /\ rpc' = [rpc EXCEPT ![r] = "createInboxItem"]
              /\ UNCHANGED response
           \/ /\ found = {}
              /\ rpc' = [rpc EXCEPT ![r] = "createOpportunity"]
              /\ UNCHANGED <<response, opportunityResult>>
    /\ UNCHANGED <<promoteVars, gmailVars, intakeVars, utilVars>>
    /\ UNCHANGED <<companies, opportunities, inboxItems, payload,
                   normalizedDomain, company, duplicate>>

\* Opportunity mode: createOpportunity.
CreateOpportunity(r) ==
    /\ rpc[r] = "createOpportunity"
    /\ LET id == SetMax(RecordIds(opportunities)) + 1
       IN  \/ /\ Throw(r, "Airtable create failed")
              /\ UNCHANGED <<opportunities, opportunityResult>>
           \/ /\ opportunities' = opportunities \cup
                    {[id |-> id, gmailThreadId |-> payload[r].gmailThreadId,
                      company |-> company[r].id]}
              /\ opportunityResult' = [opportunityResult EXCEPT
                                         ![r] = [id |-> id, attached |-> FALSE]]
              /\ rpc' = [rpc EXCEPT ![r] = "createInboxItem"]
              /\ UNCHANGED response
    /\ UNCHANGED <<promoteVars, gmailVars, intakeVars, utilVars>>
    /\ UNCHANGED <<companies, inboxItems, payload, normalizedDomain, company,
                   duplicate>>

\* finalStatus of POST.
FinalStatus(pl, opp) ==
    IF ModeOf(pl) = "log_only" THEN "logged"
    ELSE IF ModeOf(pl) = "company_only" THEN "company_only"
    ELSE IF opp.attached THEN "attached"
    ELSE "opportunity_created"

\* Step 4 of POST: createInboxItem, then the response with the new id.
CreateInboxItem(r) ==
    /\ rpc[r] = "createInboxItem"
    /\ LET id == SetMax(DOMAIN inboxItems) + 1
           fields == [gmailMessageId |-> payload[r].gmailMessageId,
                      company |-> company[r].id,
                      opportunity |-> opportunityResult[r].id,
                      activityLog |->
                         <<[entry |-> "Created via inbox ingestion",
                            traceId |-> r]>>]
       IN  \/ /\ Throw(r, "Airtable create failed")
              /\ UNCHANGED inboxItems
           \/ /\ inboxItems' = [n \in DOMAIN inboxItems \cup {id} |->
                                  IF n = id THEN fields ELSE inboxItems[n]]
              /\ response' = [response EXCEPT
                   ![r] = OkResponse(
                            FinalStatus(payload[r], opportunityResult[r]), id)]
              /\ rpc' = [rpc EXCEPT ![r] = "done"]
    /\ UNCHANGED <<promoteVars, gmailVars, intakeVars, utilVars>>
    /\ UNCHANGED <<companies, opportunities, payload, normalizedDomain,
                   company, duplicate, opportunityResult>>

\* The steps of POST after the request was received.
POST(r) ==
    \/ CompanyByNormalizedDomain(r)
    \/ CompanyByDomain(r)
    \/ CreateCompany(r)
    \/ FindDuplicateInboxItem(r)
    \/ AppendActivityLog(r)
    \/ FindOpportunityByThreadId(r)
    \/ CreateOpportunity(r)
    \/ CreateInboxItem(r)

\* Requests are handled concurrently: every await of one request may be
\* followed by a step of another.
ReceiveDelivery(r) == ReceivePost(r, Deliveries)

NextInbox ==
    \E r \in 1..NumConcurrent : ReceiveDelivery(r) \/ POST(r)

SpecInbox == Init /\ [][NextInbox]_vars

\* The Inbox Item an earlier, answered delivery of message "msg-123" from the
\* legacy company's address left behind (mode "log_only").
ExistingInboxItem ==
    [gmailMessageId |-> "msg-123",
     company |-> LegacyCompany.id,
     opportunity |-> None.id,
     activityLog |-> <<[entry |-> "Created via inbox ingestion",
                        traceId |-> 0]>>]

\* The state in which further deliveries of "msg-123" are duplicates.
InitDuplicate ==
    /\ InitPromote /\ InitGmail /\ InitIntake /\ InitUtil
    /\ companies = {LegacyCompany}
    /\ opportunities = {}
    /\ inboxItems = <<ExistingInboxItem>>
    /\ rpc = [r \in Reqs |-> "idle"]
    /\ payload = [r \in Reqs |-> ValidPayload("msg-123", NewDomainEmail, "")]
    /\ normalizedDomain = [r \in Reqs |-> <<>>]
    /\ company = [r \in Reqs |-> None]
    /\ duplicate = [r \in Reqs |-> None]
    /\ opportunityResult = [r \in Reqs |-> None]
    /\ response = [r \in Reqs |-> NoResponse]

\* Concurrent deliveries that meet an existing Inbox Item.
SpecInboxDuplicate == InitDuplicate /\ [][NextInbox]_vars

\* The caller sends the requests in strict sequence: a request is sent after
\* the previous one was answered.
InSequence(r) == \A q \in Reqs : q < r => rpc[q] = "done"

ReceiveDeliveryInSequence(r) == InSequence(r) /\ ReceivePost(r, Deliveries)

NextInboxSeq ==
    \E r \in Reqs : ReceiveDeliveryInSequence(r) \/ POST(r)

SpecInboxSeq == Init /\ [][NextInboxSeq]_vars

\* ------------------------------------------------------------------------
\* POST /api/os/inbound/gmail
\* ------------------------------------------------------------------------
\* The statuses of a RecordStore answer that is not ok; its body is the
\* store's error object {error: {...}}.
ErrorStatuses == {429, 500}

GmailError(error, status) ==
    [code |-> status, ok |-> FALSE, company |-> NoResult, opportunity |-> 0,
     error |-> error]

\* NextResponse.json({status: "success", opportunity, company}).
GmailSuccess(companyRes, opportunityRecordId) ==
    [code |-> 200, ok |-> TRUE, company |-> companyRes,
     opportunity |-> opportunityRecordId, error |-> ""]

\* The catch block of the gmail POST.
GmailThrow(g, message) ==
    /\ gmailResponse' = [gmailResponse EXCEPT ![g] = GmailError(message, 500)]
    /\ gpc' = [gpc EXCEPT ![g] = "done"]

\* const extractedDomain = domain || extractDomainFromEmail(contactEmail).
\* The route's own normalizeDomain and extractDomainFromEmail are copies of
\* the lib/airtable-os functions above (the extra trim() of the copy is
\* repeated by normalizeDomain).
ExtractedDomainOf(b) ==
    IF b.domain # <<>> THEN b.domain
    ELSE extractDomainFromEmail(b.contactEmail)

\* Mutation: an empty normalized domain is accepted.
InvalidIdentityNever(normalized) == FALSE

\* getOrCreateCompany: if (!normalizedDomain) throw.
InvalidIdentity(normalized) == normalized = <<>>

\* The checks of the gmail POST and of getOrCreateCompany before the first
\* RecordStore call.
GmailRejection(b) ==
    IF ~b.auth THEN GmailError("Unauthorized", 401)
    ELSE IF ~b.json THEN GmailError("Invalid JSON", 400)
    ELSE IF ExtractedDomainOf(b) \in {Null, <<>>}
    THEN GmailError("Missing or invalid sender email", 400)
    ELSE IF InvalidIdentity(normalizeDomain(ExtractedDomainOf(b)))
    THEN GmailError("Cannot create company: no valid domain provided", 500)
    ELSE NoGmailResponse

\* The gmail POST up to the first await of getOrCreateCompany. The caller
\* sends a request after the previous one was answered.
GmailReceive(g) ==
    /\ gpc[g] = "idle"
    /\ \A q \in GmailReqs : q < g => gpc[q] = "done"
    /\ \E b \in GmailBodies :
         /\ body' = [body EXCEPT ![g] = b]
         /\ IF GmailRejection(b) # NoGmailResponse
            THEN /\ gmailResponse' =
                      [gmailResponse EXCEPT ![g] = GmailRejection(b)]
                 /\ gpc' = [gpc EXCEPT ![g] = "done"]
                 /\ UNCHANGED extractedDomain
            ELSE /\ extractedDomain' =
                      [extractedDomain EXCEPT ![g] = ExtractedDomainOf(b)]
                 /\ gpc' = [gpc EXCEPT ![g] = "searchByNormalized"]
                 /\ UNCHANGED gmailResponse
    /\ UNCHANGED <<promoteVars, routeVars, intakeVars, utilVars>>
    /\ UNCHANGED <<inboundCompanies, inboundOpportunities, companyResult,
                   calls>>

\* A call of getOrCreateCompany and its answer: the HTTP status and whether
\* the answer lists a record.
Call(step, status, found) ==
    [step |-> step, status |-> status, found |-> found]

\* getOrCreateCompany returned: without an opportunityName POST answers at
\* once, otherwise it goes on to create the Opportunity.
CompanyResolved(g, companyRes) ==
    /\ companyResult' = [companyResult EXCEPT ![g] = companyRes]
    /\ IF body[g].opportunityName = ""
       THEN /\ gmailResponse' =
                 [gmailResponse EXCEPT ![g] = GmailSuccess(companyRes, 0)]
            /\ gpc' = [gpc EXCEPT ![g] = "done"]
       ELSE /\ gpc' = [gpc EXCEPT ![g] = "createOpportunity"]
            /\ UNCHANGED gmailResponse

\* Mutation: the formula on normalizedDomain_text matches no record.
ByNormalizedDomainTextNever(fields, normalized) == FALSE

\* The formula {normalizedDomain_text}="...".
ByNormalizedDomainText(fields, normalized) ==
    fields.normalizedDomain_text = normalized

\* The formula {domain}="...".
ByDomain(fields, normalized) == fields.domain = normalized

\* getOrCreateCompany: search by normalizedDomain_text first. The answer is
\* read without a status check: searchData1.records?.length > 0 is false for
\* an error body, which sends the resolver on to the next search.
SearchByNormalized(g) ==
    /\ gpc[g] = "searchByNormalized"
    /\ LET normalized == normalizeDomain(extractedDomain[g])
           found == {c \in inboundCompanies :
                       ByNormalizedDomainText(c, normalized)}
       IN  \/ /\ found # {}
              /\ calls' = [calls EXCEPT
                   ![g] = Append(@, Call("searchByNormalized", 200, TRUE))]
              /\ \E existing \in found :
                   CompanyResolved(g, [recordId |-> existing.id,
                                       created |-> FALSE,
                                       matchedBy |-> "normalizedDomain_text"])
           \/ /\ found = {}
              /\ calls' = [calls EXCEPT
                   ![g] = Append(@, Call("searchByNormalized", 200, FALSE))]
              /\ gpc' = [gpc EXCEPT ![g] = "searchByDomain"]
              /\ UNCHANGED <<companyResult, gmailResponse>>
           \/ /\ \E status \in ErrorStatuses :
                   calls' = [calls EXCEPT
                     ![g] = Append(@, Call("searchByNormalized", status, FALSE))]
              /\ gpc' = [gpc EXCEPT ![g] = "searchByDomain"]
              /\ UNCHANGED <<companyResult, gmailResponse>>
    /\ UNCHANGED <<promoteVars, routeVars, intakeVars, utilVars>>
    /\ UNCHANGED <<inboundCompanies, inboundOpportunities, body,
                   extractedDomain>>

\* getOrCreateCompany: search by the domain field, read the same way.
SearchByDomain(g) ==
    /\ gpc[g] = "searchByDomain"
    /\ LET normalized == normalizeDomain(extractedDomain[g])
           found == {c \in inboundCompanies : ByDomain(c, normalized)}
       IN  \/ /\ found # {}
              /\ calls' = [calls EXCEPT
                   ![g] = Append(@, Call("searchByDomain", 200, TRUE))]
              /\ \E existing \in found :
                   CompanyResolved(g, [recordId |-> existing.id,
                                       created |-> FALSE,
                                       matchedBy |-> "domain"])
           \/ /\ found = {}
              /\ calls' = [calls EXCEPT
                   ![g] = Append(@, Call("searchByDomain", 200, FALSE))]
              /\ gpc' = [gpc EXCEPT ![g] = "createCompany"]
              /\ UNCHANGED <<companyResult, gmailResponse>>
           \/ /\ \E status \in ErrorStatuses :
                   calls' = [calls EXCEPT
                     ![g] = Append(@, Call("searchByDomain", status, FALSE))]
              /\ gpc' = [gpc EXCEPT ![g] = "createCompany"]
              /\ UNCHANGED <<companyResult, gmailResponse>>
    /\ UNCHANGED <<promoteVars, routeVars, intakeVars, utilVars>>
    /\ UNCHANGED <<inboundCompanies, inboundOpportunities, body,
                   extractedDomain>>

\* getOrCreateCompany: not found, create the Company; createData.error
\* throws.
GmailCreateCompany(g) ==
    /\ gpc[g] = "createCompany"
    /\ LET normalized == normalizeDomain(extractedDomain[g])
           recordId == SetMax(RecordIds(inboundCompanies)) + 1
       IN  \/ /\ inboundCompanies' = inboundCompanies \cup
                    {[id |-> recordId, name |-> "Name",
                      domain |-> normalized,
                      normalizedDomain_text |-> normalized]}
              /\ calls' = [calls EXCEPT
                   ![g] = Append(@, Call("createCompany", 200, TRUE))]
              /\ CompanyResolved(g, [recordId |-> recordId, created |-> TRUE,
                                     matchedBy |-> ""])
           \/ /\ \E status \in ErrorStatuses :
                   calls' = [calls EXCEPT
                     ![g] = Append(@, Call("createCompany", status, FALSE))]
              /\ GmailThrow(g, "Failed to create company")
              /\ UNCHANGED <<inboundCompanies, companyResult>>
    /\ UNCHANGED <<promoteVars, routeVars, intakeVars, utilVars>>
    /\ UNCHANGED <<inboundOpportunities, body, extractedDomain>>

\* Step 2 of the gmail POST: create the Opportunity linked to the Company;
\* an error naming the Company link leads to a second try without the link.
GmailCreateOpportunity(g) ==
    /\ gpc[g] = "createOpportunity"
    /\ LET opportunityRecordId == SetMax(RecordIds(inboundOpportunities)) + 1
       IN  \/ /\ inboundOpportunities' = inboundOpportunities \cup
                    {[id |-> opportunityRecordId,
                      company |-> companyResult[g].recordId]}
              /\ gmailResponse' = [gmailResponse EXCEPT
                   ![g] = GmailSuccess(companyResult[g], opportunityRecordId)]
              /\ gpc' = [gpc EXCEPT ![g] = "done"]
           \/ /\ gpc' = [gpc EXCEPT ![g] = "retryOpportunity"]
              /\ UNCHANGED <<inboundOpportunities, gmailResponse>>
           \/ /\ GmailThrow(g, "Failed to create opportunity")
              /\ UNCHANGED inboundOpportunities
    /\ UNCHANGED <<promoteVars, routeVars, intakeVars, utilVars>>
    /\ UNCHANGED <<inboundCompanies, body, extractedDomain, companyResult,
                   calls>>

\* Step 2 of the gmail POST: the second try, without the Company link.
GmailRetryOpportunity(g) ==
    /\ gpc[g] = "retryOpportunity"
    /\ LET opportunityRecordId == SetMax(RecordIds(inboundOpportunities)) + 1
       IN  \/ /\ inboundOpportunities' = inboundOpportunities \cup
                    {[id |-> opportunityRecordId, company |-> 0]}
              /\ gmailResponse' = [gmailResponse EXCEPT
                   ![g] = GmailSuccess(companyResult[g], opportunityRecordId)]
              /\ gpc' = [gpc EXCEPT ![g] = "done"]
           \/ /\ GmailThrow(g, "Failed to create opportunity")
              /\ UNCHANGED inboundOpportunities
    /\ UNCHANGED <<promoteVars, routeVars, intakeVars, utilVars>>
    /\ UNCHANGED <<inboundCompanies, body, extractedDomain, companyResult,
                   calls>>

\* The steps of the gmail POST after the request was received.
GmailPOST(g) ==
    \/ SearchByNormalized(g)
    \/ SearchByDomain(g)
    \/ GmailCreateCompany(g)
    \/ GmailCreateOpportunity(g)
    \/ GmailRetryOpportunity(g)

NextGmail == \E g \in GmailReqs : GmailReceive(g) \/ GmailPOST(g)

SpecGmail == Init /\ [][NextGmail]_vars

\* ------------------------------------------------------------------------
\* POST /api/pm-intake: createRecord over fetchWithRetry (lib/airtable)
\* ------------------------------------------------------------------------
\* One step of fetchWithRetry: a fetch and the status of its answer, or a
\* sleep and its delay in milliseconds.
Event(kind, value) == [kind |-> kind, value |-> value]

\* Mutation: one more retry.
ShouldRetryOnceMore(status, n) == status = 429 /\ n <= MAX_RETRIES

\* fetchWithRetry: response.status === 429 && attempt < MAX_RETRIES.
ShouldRetry(status, n) == status = 429 /\ n < MAX_RETRIES

\* fetchWithRetry: Math.pow(2, attempt - 1) * 1000.
Delay(n) == (2 ^ (n - 1)) * 1000

IntakeError(error, status) ==
    [code |-> status, status |-> "", createdCount |-> 0, errors |-> <<>>,
     error |-> error]

\* The checks of the pm-intake POST before the loop over inbox_items.
IntakeRejection(b) ==
    IF ~b.token THEN IntakeError("Unauthorized", 401)
    ELSE IF ~b.json THEN IntakeError("Invalid JSON", 400)
    ELSE IF ~b.valid THEN IntakeError("Validation failed", 400)
    ELSE NoIntakeResponse

\* The pm-intake POST up to the first fetch of the first createRecord. The
\* caller sends a request after the previous one was answered.
IntakeReceive(i) ==
    /\ ipc[i] = "idle"
    /\ \A q \in Intakes : q < i => ipc[q] = "done"
    /\ \E b \in IntakeRequests :
         /\ intakeBody' = [intakeBody EXCEPT ![i] = b]
         /\ IF IntakeRejection(b) # NoIntakeResponse
            THEN /\ intakeResponse' =
                      [intakeResponse EXCEPT ![i] = IntakeRejection(b)]
                 /\ ipc' = [ipc EXCEPT ![i] = "done"]
            ELSE /\ ipc' = [ipc EXCEPT ![i] = "fetch"]
                 /\ UNCHANGED intakeResponse
    /\ UNCHANGED <<promoteVars, routeVars, gmailVars, utilVars>>
    /\ UNCHANGED <<pmInbox, itemIndex, attempt, resStatus, trace,
                   createdCount, errors>>

\* fetchWithRetry: one fetch. A rate-limited answer below the attempt limit
\* leads to the sleep, any other answer is returned to createRecord.
FetchAttempt(i) ==
    /\ ipc[i] = "fetch"
    /\ \E status \in {200} \cup ErrorStatuses :
         /\ trace' = [trace EXCEPT ![i] = Append(@, Event("fetch", status))]
         /\ pmInbox' = IF status = 200
                       THEN pmInbox \cup FreshIds(pmInbox, 1)
                       ELSE pmInbox
         /\ IF ShouldRetry(status, attempt[i])
            THEN /\ ipc' = [ipc EXCEPT ![i] = "sleep"]
                 /\ UNCHANGED resStatus
            ELSE /\ ipc' = [ipc EXCEPT ![i] = "text"]
                 /\ resStatus' = [resStatus EXCEPT ![i] = status]
    /\ UNCHANGED <<promoteVars, routeVars, gmailVars, utilVars>>
    /\ UNCHANGED <<intakeBody, itemIndex, attempt, createdCount, errors,
                   intakeResponse>>

\* fetchWithRetry: the sleep, then the recursive call with attempt + 1.
BackoffSleep(i) ==
    /\ ipc[i] = "sleep"
    /\ trace' = [trace EXCEPT
                   ![i] = Append(@, Event("sleep", Delay(attempt[i])))]
    /\ attempt' = [attempt EXCEPT ![i] = @ + 1]
    /\ ipc' = [ipc EXCEPT ![i] = "fetch"]
    /\ UNCHANGED <<promoteVars, routeVars, gmailVars, utilVars>>
    /\ UNCHANGED <<pmInbox, intakeBody, itemIndex, resStatus, createdCount,
                   errors, intakeResponse>>

\* createRecord after fetchWithRetry returned: if (!res.ok) throw; POST
\* counts the record or pushes the error, then goes on to the next item or,
\* after the last one, answers {status: "ok", createdCount, errors}.
CreateRecordReturn(i) ==
    /\ ipc[i] = "text"
    /\ LET count == IF resStatus[i] = 200
                    THEN createdCount[i] + 1 ELSE createdCount[i]
           errs == IF resStatus[i] = 200 THEN errors[i]
                   ELSE Append(errors[i], [index |-> itemIndex[i],
                                           status |-> resStatus[i]])
       IN  /\ createdCount' = [createdCount EXCEPT ![i] = count]
           /\ errors' = [errors EXCEPT ![i] = errs]
           /\ IF itemIndex[i] + 1 < intakeBody[i].items
              THEN /\ itemIndex' = [itemIndex EXCEPT ![i] = @ + 1]
                   /\ attempt' = [attempt EXCEPT ![i] = 1]
                   /\ trace' = [trace EXCEPT ![i] = <<>>]
                   /\ resStatus' = [resStatus EXCEPT ![i] = 0]
                   /\ ipc' = [ipc EXCEPT ![i] = "fetch"]
                   /\ UNCHANGED intakeResponse
              ELSE /\ intakeResponse' =
                        [intakeResponse EXCEPT
                           ![i] = [code |-> 200, status |-> "ok",
                                   createdCount |-> count, errors |-> errs,
                                   error |-> ""]]
                   /\ ipc' = [ipc EXCEPT ![i] = "done"]
                   /\ UNCHANGED <<itemIndex, attempt, trace, resStatus>>
    /\ UNCHANGED <<promoteVars, routeVars, gmailVars, utilVars>>
    /\ UNCHANGED <<pmInbox, intakeBody>>

\* The steps of the pm-intake POST after the request was received.
IntakePOST(i) ==
    \/ FetchAttempt(i)
    \/ BackoffSleep(i)
    \/ CreateRecordReturn(i)

NextIntake == \E i \in Intakes : IntakeReceive(i) \/ IntakePOST(i)

SpecIntake == Init /\ [][NextIntake]_vars

\* ========================================================================
\* Properties of the promotion workflow
\* ========================================================================
Range(f) == {f[x] : x \in DOMAIN f}

Issued(p, call) == call \in Range(ops[p])

\* Every declared child-creation step of run p has fully succeeded: the
\* response lists as many ids as the payload declared, for both kinds.
AllStepsSucceeded(p) ==
    /\ Len(result[p].createdTasks) = tasksToCreate[p]
    /\ Len(result[p].createdDecisions) = decisionsToCreate[p]

\* Every declared child of run p is a record of RecordStore.
ChildrenInStore(p) ==
    /\ Cardinality(effects[p].tasks \cap tasks) = tasksToCreate[p]
    /\ Cardinality(effects[p].decisions \cap decisions) = decisionsToCreate[p]

StepFailures ==
    {"Task creation failed", "Task creation mismatch",
     "Decision creation failed", "Decision creation mismatch"}

\* C1 (as stated): when a run that declared at least one child has ended,
\* its source record is deleted if and only if every declared child-creation
\* step has fully succeeded.
C1_DeletedIffAllSucceeded ==
    \A p \in Runs :
        (pc[p] = "done" /\ tasksToCreate[p] + decisionsToCreate[p] > 0) =>
            (deletedBy[p] <=> AllStepsSucceeded(p))

\* C1 (amended): the source record is deleted only if every declared
\* child-creation step has fully succeeded and at least one child was
\* created; and a run that ended with every declared step succeeded and at
\* least one child created has issued the delete call, the source being
\* deleted exactly when the response reports inboxDeleted.
C1_DeletedOnlyAfterAllSucceeded ==
    \A p \in Runs :
        /\ deletedBy[p] =>
             /\ AllStepsSucceeded(p)
             /\ ChildrenInStore(p)
             /\ ~NothingCreated(result[p])
        /\ (pc[p] = "done" /\ AllStepsSucceeded(p)
              /\ tasksToCreate[p] + decisionsToCreate[p] > 0) =>
             /\ Issued(p, "delete")
             /\ deletedBy[p] <=> result[p].inboxDeleted
             /\ deletedBy[p] <=> result[p].error = "null"

C1_Witness ==
    \E p \in Runs :
        /\ pc[p] = "done"
        /\ deletedBy[p]
        /\ tasksToCreate[p] > batchSize
        /\ decisionsToCreate[p] > 0
        /\ inboxRecordId[p] \notin inbox

\* C2: the delete call, if a run issues it at all, is the last RecordStore
\* call of the run, and a run that left through a failure branch of the task
\* or decision step has issued no delete call.
C2_DeleteIsLast ==
    \A p \in Runs :
        /\ \A n \in 1..Len(ops[p]) :
              ops[p][n] = "delete" => n = Len(ops[p])
        /\ result[p].error \in StepFailures =>
              (~Issued(p, "delete") /\ ~deletedBy[p])

C2_Witness ==
    \E p \in Runs :
        /\ pc[p] = "done"
        /\ ops[p] = <<"get", "createTasks", "createDecisions", "delete">>
        /\ deletedBy[p]

\* C3: only a delete step of a run whose declared children all exist in
\* RecordStore removes a source record: before a run's delete step begins its
\* source is intact, and the source is never gone while a child is missing.
C3_CrashSafe ==
    /\ [](\A p \in Runs :
            /\ ~Issued(p, "delete") => ~deletedBy[p]
            /\ Issued(p, "delete") => ChildrenInStore(p))
    /\ [][\A p \in Runs :
            (inbox' # inbox /\ pc'[p] # pc[p]) =>
               /\ pc[p] = "step5"
               /\ ChildrenInStore(p)
               /\ inbox' = inbox \ {inboxRecordId[p]}]_vars

\* A run crashed before its delete step with children created and the source
\* intact.
C3_Witness ==
    \E p \in Runs :
        /\ pc[p] = "crashed"
        /\ ~Issued(p, "delete")
        /\ effects[p].tasks # {}
        /\ inboxRecordId[p] \in inbox

\* C4: a run stopped by a count mismatch of the decisions batch issues no
\* further call, leaves the source record in place and answers ok=false with
\* the ids of the created tasks in createdTasks.
C4_NoPartialDelete ==
    \A p \in Runs :
        (pc[p] = "done" /\ result[p].error = "Decision creation mismatch") =>
            /\ ~result[p].ok
            /\ ~result[p].inboxDeleted
            /\ ops[p][Len(ops[p])] = "createDecisions"
            /\ ~Issued(p, "delete")
            /\ inboxRecordId[p] \in inbox
            /\ Len(result[p].createdTasks) = tasksToCreate[p]
            /\ Range(result[p].createdTasks) = effects[p].tasks
            /\ effects[p].tasks \subseteq tasks

C4_Witness ==
    \E p \in Runs :
        /\ pc[p] = "done"
        /\ result[p].error = "Decision creation mismatch"
        /\ tasksToCreate[p] = 2
        /\ Len(result[p].createdTasks) = 2
        /\ Cardinality(effects[p].decisions) = 1
        /\ decisionsToCreate[p] = 2

\* C5: a run gets past the task step only with exactly as many created task
\* ids as tasks requested; a run stopped by a task count mismatch answers
\* ok=false and has issued neither a decision-creation call nor a delete.
C5_TaskMismatchStops ==
    \A p \in Runs :
        /\ (pc[p] \in {"step3", "step4", "step5"}
              \/ Issued(p, "createDecisions") \/ Issued(p, "delete")) =>
             /\ Len(result[p].createdTasks) = tasksToCreate[p]
             /\ Cardinality(effects[p].tasks) = tasksToCreate[p]
        /\ result[p].error = "Task creation mismatch" =>
             /\ pc[p] = "done"
             /\ ~result[p].ok
             /\ ~Issued(p, "createDecisions")
             /\ ~Issued(p, "delete")
             /\ ~deletedBy[p]
             /\ Cardinality(effects[p].tasks) < tasksToCreate[p]

\* A mismatch in the second chunk of a task batch: ten records exist, the
\* response lists none.
C5_Witness ==
    \E p \in Runs :
        /\ result[p].error = "Task creation mismatch"
        /\ tasksToCreate[p] > batchSize
        /\ Cardinality(effects[p].tasks) = batchSize
        /\ decisionsToCreate[p] > 0

\* C6: a run with no tasks and no decisions issues no create and no delete
\* call and leaves RecordStore unchanged; it ends with ok=false, and with the
\* "nothing to promote" rejection once step 1 has found the source.
C6_EmptyRequestRejected ==
    \A p \in Runs :
        (pc[p] # "idle" /\ tasksToCreate[p] = 0 /\ decisionsToCreate[p] = 0) =>
            /\ Range(ops[p]) \subseteq {"get"}
            /\ effects[p] = NoEffects
            /\ ~deletedBy[p]
            /\ pc[p] = "done" =>
                 /\ ~result[p].ok
                 /\ ~result[p].inboxDeleted
                 /\ result[p].error \in
                      {"No tasks or decisions to create - nothing to promote",
                       "Inbox record not found",
                       "Failed to fetch Inbox record"}
                 /\ (inboxRecordId[p] \in inbox
                       /\ result[p].error # "Failed to fetch Inbox record") =>
                      result[p].error =
                        "No tasks or decisions to create - nothing to promote"

C6_Witness ==
    \E p \in Runs :
        /\ pc[p] = "done"
        /\ tasksToCreate[p] = 0
        /\ decisionsToCreate[p] = 0
        /\ inboxRecordId[p] \in inbox
        /\ result[p].error =
             "No tasks or decisions to create - nothing to promote"

\* C7: a run whose final delete call failed answers ok=true with an error
\* message, reports the source as not deleted and lists every created child;
\* the children stay in RecordStore.
C7_DeleteFailureKeepsOk ==
    \A p \in Runs :
        (pc[p] = "done" /\ Issued(p, "delete") /\ ~deletedBy[p]) =>
            /\ result[p].ok
            /\ ~result[p].inboxDeleted
            /\ result[p].error = "Records created but inbox deletion failed"
            /\ Len(result[p].createdTasks) = tasksToCreate[p]
            /\ Len(result[p].createdDecisions) = decisionsToCreate[p]
            /\ Range(result[p].createdTasks) = effects[p].tasks
            /\ Range(result[p].createdDecisions) = effects[p].decisions
            /\ effects[p].tasks \subseteq tasks
            /\ effects[p].decisions \subseteq decisions
            /\ inboxRecordId[p] \in inbox

C7_Witness ==
    \E p \in Runs :
        /\ pc[p] = "done"
        /\ Issued(p, "delete")
        /\ ~deletedBy[p]
        /\ tasksToCreate[p] > 0
        /\ decisionsToCreate[p] > 0

\* ========================================================================
\* Properties of the duplicate guard of POST /api/inbox/email
\* ========================================================================
\* The answered requests that delivered message id m.
DeliveriesOf(m) ==
    {r \in Reqs : rpc[r] = "done" /\ payload[r].gmailMessageId = m}

\* The Inbox Items whose Gmail Message ID is m.
ItemsOf(m) == {id \in DOMAIN inboxItems : inboxItems[id].gmailMessageId = m}

\* C8: when the deliveries of one message id, sent in strict sequence, were
\* all answered ok, exactly one Inbox Item with that message id exists, every
\* response carries its id, and the first response reports not-duplicate and
\* every later one duplicate.
C8_SequentialDeliveriesOneItem ==
    \A m \in MessageIds :
        (DeliveriesOf(m) # {} /\ \A r \in DeliveriesOf(m) : response[r].ok) =>
            \E id \in DOMAIN inboxItems :
                /\ ItemsOf(m) = {id}
                /\ \A r \in DeliveriesOf(m) :
                      /\ response[r].inboxItem = id
                      /\ response[r].status = "duplicate" <=>
                            \E q \in DeliveriesOf(m) : q < r

\* Three deliveries of msg-123, all answered ok.
C8_Witness ==
    /\ DeliveriesOf("msg-123") = {1, 2, 3}
    /\ \A r \in {1, 2, 3} : response[r].ok
    /\ response[1].status # "duplicate"
    /\ response[3].status = "duplicate"

\* C9: once a delivery of a message id was answered ok, exactly one Inbox
\* Item with that message id exists, whatever the overlap of the requests.
C9_AlwaysOneItem ==
    \A m \in MessageIds :
        (\E r \in DeliveriesOf(m) : response[r].ok) =>
            Cardinality(ItemsOf(m)) = 1

\* C10: a duplicate delivery creates no record, and the Activity Log of an
\* Inbox Item is its initial entry followed by one line for each duplicate
\* delivery answered so far, in delivery order.
C10_LogAppended ==
    \A id \in DOMAIN inboxItems :
        LET log == inboxItems[id].activityLog
            dups == {r \in Reqs : /\ rpc[r] = "done"
                                  /\ response[r].status = "duplicate"
                                  /\ response[r].inboxItem = id}
        IN  /\ Len(log) = 1 + Cardinality(dups)
            /\ log[1].entry = "Created via inbox ingestion"
            /\ log[1].traceId \notin dups
            /\ \A n \in 2..Len(log) :
                  /\ log[n].entry = "Duplicate ingestion attempt"
                  /\ log[n].traceId \in dups
                  /\ n > 2 => log[n - 1].traceId < log[n].traceId

\* One item, created by the first delivery, its log extended by the second
\* and the third.
C10_Witness ==
    \E id \in DOMAIN inboxItems :
        /\ DOMAIN inboxItems = {id}
        /\ Len(inboxItems[id].activityLog) = 3
        /\ inboxItems[id].activityLog[3].traceId = 3

\* C11: the audit-log append is best-effort: a request that found an existing
\* Inbox Item for its message id is answered ok with status "duplicate" and
\* the existing id, whether or not the update that appends the log line
\* succeeded.
C11_AppendBestEffort ==
    \A r \in Reqs :
        (rpc[r] = "done" /\ duplicate[r] # None) =>
            response[r] = OkResponse("duplicate", duplicate[r].id)

\* ========================================================================
\* Properties of getOrCreateCompany (POST /api/os/inbound/gmail)
\* ========================================================================
\* The identity key of request g: the normalized domain.
IdentityOf(g) == normalizeDomain(ExtractedDomainOf(body[g]))

\* getOrCreateCompany has returned to request g.
Returned(g) == companyResult[g] # NoResult

\* Request g issued RecordStore calls and every one was answered ok.
AllAnswered(g) ==
    /\ calls[g] # <<>>
    /\ \A n \in 1..Len(calls[g]) : calls[g][n].status = 200

\* The parent records keyed by the normalized identity d.
RecordsOf(d) == {c \in inboundCompanies : c.normalizedDomain_text = d}

\* The identities the initial Companies table holds, in either field.
InitialIdentities == {LegacyInboundCompany.domain}

\* C12: get-or-create called twice in strict sequence for one identity, every
\* RecordStore call answered ok: the first call on an identity unknown to the
\* store reports created=true; the call right after a creating call returns
\* the same recordId with created=false and matchedBy the primary field
\* (normalizedDomain_text), and exactly one parent record of that identity
\* exists afterwards.
C12_GetOrCreateConverges ==
    /\ \A g \in GmailReqs :
          ( /\ Returned(g)
            /\ AllAnswered(g)
            /\ IdentityOf(g) \notin InitialIdentities
            /\ \A p \in GmailReqs :
                  (p < g /\ calls[p] # <<>>) => IdentityOf(p) # IdentityOf(g) )
          => companyResult[g].created
    /\ \A q \in GmailReqs : \A r \in GmailReqs :
          ( /\ r = q + 1
            /\ Returned(q) /\ AllAnswered(q) /\ companyResult[q].created
            /\ Returned(r) /\ AllAnswered(r)
            /\ IdentityOf(q) = IdentityOf(r)
            /\ \A s \in GmailReqs : s > r => calls[s] = <<>> )
          => /\ companyResult[r] =
                  [recordId |-> companyResult[q].recordId, created |-> FALSE,
                   matchedBy |-> "normalizedDomain_text"]
             /\ Cardinality(RecordsOf(IdentityOf(q))) = 1

\* Two requests for x.io, one by sender and one by explicit domain: the first
\* created the company, the second found it by normalizedDomain_text.
C12_Witness ==
    /\ Returned(1) /\ AllAnswered(1) /\ companyResult[1].created
    /\ Returned(2) /\ AllAnswered(2)
    /\ body[1].domain # body[2].domain
    /\ IdentityOf(1) = IdentityOf(2)
    /\ companyResult[2].recordId = companyResult[1].recordId
    /\ companyResult[2].matchedBy = "normalizedDomain_text"
    /\ gmailResponse[2].company = companyResult[2]

\* The existing records that match identity d on the primary field, and on
\* the secondary field, leaving out the record request g created itself.
ExistingFor(g, matches(_, _)) ==
    {c \in inboundCompanies :
        /\ matches(c, IdentityOf(g))
        /\ ~(companyResult[g].created /\ c.id = companyResult[g].recordId)}

\* C13: get-or-create returns an existing record matching the normalized
\* identity on the primary field whenever there is one, otherwise an existing
\* record matching on the secondary field, and the create call is issued only
\* after both lookups completed and each returned zero matching records.
C13_CreateOnlyOnTotalMiss ==
    \A g \in GmailReqs :
        /\ (\E n \in 1..Len(calls[g]) : calls[g][n].step = "createCompany") =>
              /\ calls[g][1] = Call("searchByNormalized", 200, FALSE)
              /\ calls[g][2] = Call("searchByDomain", 200, FALSE)
        /\ (Returned(g) /\ \A s \in GmailReqs : s > g => calls[s] = <<>>) =>
              LET primary == ExistingFor(g, ByNormalizedDomainText)
                  secondary == ExistingFor(g, ByDomain)
              IN  /\ primary # {} =>
                        /\ companyResult[g].recordId \in RecordIds(primary)
                        /\ companyResult[g].matchedBy = "normalizedDomain_text"
                  /\ (primary = {} /\ secondary # {}) =>
                        /\ companyResult[g].recordId \in RecordIds(secondary)
                        /\ companyResult[g].matchedBy = "domain"

\* C14: a RecordStore HTTP error at any step of get-or-create (primary
\* lookup, secondary lookup or create) ends the resolver: the errored call is
\* the last one it issues, it returns no record, and the request is answered
\* with an error.
C14_ErrorPropagates ==
    \A g \in GmailReqs : \A n \in 1..Len(calls[g]) :
        calls[g][n].status \in ErrorStatuses =>
            /\ n = Len(calls[g])
            /\ ~Returned(g)
            /\ gpc[g] = "done"
            /\ ~gmailResponse[g].ok

\* C15: a request whose identity value is missing or normalizes to the empty
\* string fails before any RecordStore call is issued, and no parent record
\* keyed by an empty identity is ever created.
C15_EmptyIdentityRejected ==
    /\ \A g \in GmailReqs :
          ( /\ gpc[g] # "idle"
            /\ body[g].auth
            /\ body[g].json
            /\ \/ ExtractedDomainOf(body[g]) \in {Null, <<>>}
               \/ normalizeDomain(ExtractedDomainOf(body[g])) = <<>> )
          => /\ gpc[g] = "done"
             /\ calls[g] = <<>>
             /\ ~Returned(g)
             /\ ~gmailResponse[g].ok
             /\ gmailResponse[g].code \in {400, 500}
    /\ \A c \in inboundCompanies :
          /\ c.domain # <<>>
          /\ c.normalizedDomain_text # <<>>

\* The explicit domains "https://" and "www." were both sent and rejected.
C15_Witness ==
    /\ gpc[1] = "done" /\ body[1].domain = ProtocolOnly
    /\ gmailResponse[1].error = "Cannot create company: no valid domain provided"
    /\ gpc[2] = "done" /\ body[2].domain = WwwOnly
    /\ gmailResponse[2].code = 500
    /\ calls[1] = <<>> /\ calls[2] = <<>>

\* ========================================================================
\* Properties of getOrCreateCompany under overlapping requests
\* (POST /api/inbox/email)
\* ========================================================================
\* Two distinct parent records keyed by the same normalized identity.
DuplicateCompanies(c1, c2) ==
    /\ c1 # c2
    /\ c1.normalizedDomain # <<>>
    /\ c1.normalizedDomain = c2.normalizedDomain

\* C16: no mutual exclusion across requests. Two parent records with the same
\* normalized identity exist exactly as the outcome of two overlapping
\* get-or-create requests for that identity which both missed both lookups
\* and both created: each record is the one a different request reports as
\* created.
C16_DuplicatesFromRace ==
    \A c1 \in companies : \A c2 \in companies :
        DuplicateCompanies(c1, c2) =>
            \E q \in Reqs : \E r \in Reqs :
                /\ q # r
                /\ company[q] = [id |-> c1.id, created |-> TRUE]
                /\ company[r] = [id |-> c2.id, created |-> TRUE]
                /\ normalizeDomain(normalizedDomain[q]) = c1.normalizedDomain
                /\ normalizeDomain(normalizedDomain[r]) = c1.normalizedDomain

\* Both requests were answered ok, each created a company for x.io, and the
\* two records are in the store.
C16_Witness ==
    /\ rpc[1] = "done" /\ response[1].ok /\ company[1].created
    /\ rpc[2] = "done" /\ response[2].ok /\ company[2].created
    /\ company[1].id # company[2].id
    /\ \E c1 \in companies : \E c2 \in companies :
          /\ DuplicateCompanies(c1, c2)
          /\ {c1.id, c2.id} = {company[1].id, company[2].id}

\* C17: every RecordStore call of the resolver goes through the retry
\* wrapper: once a request is answered, each step whose first attempt was
\* answered with the rate-limit status 429 has been attempted again.
C17_RateLimitRetried ==
    \A g \in GmailReqs :
        gpc[g] = "done" =>
            \A n \in 1..Len(calls[g]) :
                ( /\ calls[g][n].status = 429
                  /\ n > 1 => calls[g][n - 1].step # calls[g][n].step )
                => /\ n < Len(calls[g])
                   /\ calls[g][n + 1].step = calls[g][n].step

\* ========================================================================
\* Properties of the retry wrapper (fetchWithRetry under POST /api/pm-intake)
\* ========================================================================
RateLimitedFetch == Event("fetch", 429)

\* fetchWithRetry has returned its response for the current createRecord.
WrapperReturned(i) == ipc[i] \in {"text", "done"} /\ trace[i] # <<>>

\* The steps of a call whose three attempts were all rate-limited.
ThreeRateLimited ==
    <<RateLimitedFetch, Event("sleep", 1000), RateLimitedFetch,
      Event("sleep", 2000), RateLimitedFetch>>

C19_ThreeRetries ==
    \A i \in Intakes : \A k \in 1..3 :
        ( /\ WrapperReturned(i)
          /\ Len(trace[i]) >= 2 * k - 1
          /\ trace[i][2 * k - 1] = RateLimitedFetch )
        => /\ Len(trace[i]) >= 2 * k + 1
           /\ trace[i][2 * k] = Event("sleep", (2 ^ (k - 1)) * 1000)
           /\ trace[i][2 * k + 1].kind = "fetch"

\* C20: when retries are exhausted the wrapper returns the last rate-limited
\* response as it is, the status check of createRecord raises, and the
\* endpoint answers with the upstream's rate-limit status, not with a
\* success status.
C20_RateLimitSurfaced ==
    \A i \in Intakes :
        /\ (ipc[i] = "text" /\ trace[i] = ThreeRateLimited) =>
              resStatus[i] = 429
        /\ ipc[i] = "done" =>
              \A n \in 1..Len(errors[i]) :
                  errors[i][n].status = 429 =>
                      /\ intakeResponse[i].code = 429
                      /\ intakeResponse[i].status # "ok"

\* ========================================================================
\* Properties of the status codes of the HTTP-facing callers
\* ========================================================================
\* C21: each typed error is answered with its own status code: an identity
\* that is missing or normalizes to empty with 400, a promotion whose source
\* record does not exist with 404, a promotion stopped mid-way with 500, and
\* a RecordStore answer that is not ok with 502 or 500.
C21_StatusCodes ==
    /\ \A g \in GmailReqs :
          (gpc[g] = "done" /\ body[g].auth /\ body[g].json) =>
              /\ ( \/ ExtractedDomainOf(body[g]) \in {Null, <<>>}
                   \/ normalizeDomain(ExtractedDomainOf(body[g])) = <<>> )
                 => gmailResponse[g].code = 400
              /\ (\E n \in 1..Len(calls[g]) :
                      calls[g][n].status \in ErrorStatuses)
                 => gmailResponse[g].code \in {500, 502}
    /\ \A p \in Runs :
          pc[p] = "done" =>
              /\ result[p].error = "Inbox record not found" =>
                    doPostStatus(result[p]) = 404
              /\ result[p].error \in StepFailures =>
                    doPostStatus(result[p]) = 500

\* ========================================================================
\* Placeholder utilities (coerceToString, normalizeKey, normalizeMerge) and
\* identity-key normalization, applied to inputs drawn from bounded sets
\* ========================================================================

MaxArrayLen == 2     \* elements of an array value
MaxKeyTokens == 3    \* pieces a raw placeholder key is assembled from
MaxEntries == 2      \* entries of one object of a request body
MaxDomainTokens == 3 \* pieces a raw domain input is assembled from

\* JavaScript values: a tag followed by the payload.  null is Null; a string
\* is its tuple of characters; an object carries its name and value
\* properties (Undefined when the property is absent); an array its elements.
Undefined == <<"undefined">>
Str(s) == <<"string", s>>
Num(n) == <<"number", n>>
Bool(b) == <<"boolean", b>>
Obj(name, value) == <<"object", name, value>>
Arr(items) == <<"array", items>>

TypeOf(v) == v[1]

UpperOf ==
    [c \in {LowerOf[u] : u \in DOMAIN LowerOf} |->
       CHOOSE u \in DOMAIN LowerOf : LowerOf[u] = c]

\* String.prototype.toUpperCase
ToUpperCase(s) ==
    [n \in 1..Len(s) |-> IF s[n] \in DOMAIN UpperOf THEN UpperOf[s[n]] ELSE s[n]]

\* String(n) of a non-negative integer
RECURSIVE StringOfNumber(_)
StringOfNumber(n) ==
    LET digits == <<"0", "1", "2", "3", "4", "5", "6", "7", "8", "9">>
    IN  IF n < 10 THEN <<digits[n + 1]>>
        ELSE StringOfNumber(n \div 10) \o <<digits[(n % 10) + 1]>>

\* trimmed || null
OrNull(trimmed) == IF trimmed = <<>> THEN Null ELSE trimmed

\* JSON text of a property value (the strings at hand need no escaping).
JsonOf(v) ==
    CASE TypeOf(v) = "number" -> StringOfNumber(v[2])
      [] TypeOf(v) = "string" -> <<"\"">> \o v[2] \o <<"\"">>
      [] TypeOf(v) = "boolean" ->
            IF v[2] THEN <<"t", "r", "u", "e">> ELSE <<"f", "a", "l", "s", "e">>
      [] OTHER -> <<"n", "u", "l", "l">>

\* JSON.stringify of an object: undefined properties are left out.
Stringify(obj) ==
    LET name == IF obj[2] = Undefined THEN <<>>
                ELSE <<"\"", "n", "a", "m", "e", "\"", ":">> \o JsonOf(obj[2])
        value == IF obj[3] = Undefined THEN <<>>
                 ELSE <<"\"", "v", "a", "l", "u", "e", "\"", ":">> \o JsonOf(obj[3])
        comma == IF name # <<>> /\ value # <<>> THEN <<",">> ELSE <<>>
    IN  <<"{">> \o name \o comma \o value \o <<"}">>

\* The object branch of coerceToString: name, then value, then the JSON text.
CoerceObject(obj) ==
    IF TypeOf(obj[2]) = "string" THEN OrNull(Trim(obj[2][2]))
    ELSE IF TypeOf(obj[3]) = "string" THEN OrNull(Trim(obj[3][2]))
    ELSE Stringify(obj)

\* coerceToString: a string or Null.
coerceToString(val) ==
    CASE TypeOf(val) \in {"null", "undefined"} -> Null
      [] TypeOf(val) = "string" -> OrNull(Trim(val[2]))
      [] TypeOf(val) = "array" ->
            IF val[2] = <<>> THEN Null
            ELSE LET first == val[2][1]
                 IN  CASE TypeOf(first) = "object" -> CoerceObject(first)
                       [] TypeOf(first) = "string" -> OrNull(Trim(first[2]))
                       [] TypeOf(first) = "number" -> StringOfNumber(first[2])
                       [] OTHER -> Null
      [] TypeOf(val) = "object" -> CoerceObject(val)
      [] TypeOf(val) = "number" -> StringOfNumber(val[2])
      [] OTHER -> Null

\* replace(/^\{\{|\}\}$/g, ""): a leading "{{" and a trailing "}}" are each
\* removed when there, independently of the other.
StripBraces(s) ==
    LET lead == IF StartsWith(s, <<"{", "{">>) THEN Slice(s, 2) ELSE s
    IN  IF /\ Len(lead) >= 2
           /\ SubSeq(lead, Len(lead) - 1, Len(lead)) = <<"}", "}">>
        THEN SubSeq(lead, 1, Len(lead) - 2)
        ELSE lead

\* normalizeKey: trim, remove braces, trim again, uppercase.
normalizeKey(key) == ToUpperCase(Trim(StripBraces(Trim(key))))

EmptyMap == [k \in {} |-> <<>>]

\* out[key] = s
Put(out, key, s) ==
    [k \in DOMAIN out \cup {key} |-> IF k = key THEN s ELSE out[k]]

\* An object of the request body is the sequence of its entries <<key, value>>
\* in insertion order, as Object.entries lists them.
Entries(pairs) == <<"entries", pairs>>

\* a || b
Or(a, b) == IF a # Undefined THEN a ELSE b

\* Step 1 of normalizeMerge: every placeholder entry with a usable key and
\* value is written.
RECURSIVE FromPlaceholders(_, _)
FromPlaceholders(pairs, out) ==
    IF pairs = <<>> THEN out
    ELSE LET normalized == normalizeKey(Head(pairs)[1])
             s == coerceToString(Head(pairs)[2])
         IN  FromPlaceholders(Tail(pairs),
                 IF s # Null /\ normalized # <<>>
                 THEN Put(out, normalized, s) ELSE out)

\* Step 2 of normalizeMerge: a flat field is written only where the key is
\* not set yet.
RECURSIVE FromMerge(_, _)
FromMerge(pairs, out) ==
    IF pairs = <<>> THEN out
    ELSE LET normalized == normalizeKey(Head(pairs)[1])
             s == coerceToString(Head(pairs)[2])
         IN  FromMerge(Tail(pairs),
                 IF s # Null /\ normalized # <<>> /\ normalized \notin DOMAIN out
                 THEN Put(out, normalized, s) ELSE out)

\* normalizeMerge: the normalized map of a request body.
normalizeMerge(rawBody) ==
    LET placeholders == rawBody.placeholders
        merge == Or(rawBody.mergeFields, rawBody.fields)
        step1 == IF placeholders # Undefined
                 THEN FromPlaceholders(placeholders[2], EmptyMap)
                 ELSE EmptyMap
    IN  IF merge # Undefined THEN FromMerge(merge[2], step1) ELSE step1

\* All strings assembled from at most n of the given pieces.
RECURSIVE Concats(_, _)
Concats(pieces, n) ==
    IF n = 0 THEN {<<>>}
    ELSE LET shorter == Concats(pieces, n - 1)
         IN  shorter \cup {s \o t : s \in shorter, t \in pieces}

\* All sequences of at most n elements of S.
RECURSIVE SeqsUpTo(_, _)
SeqsUpTo(S, n) ==
    IF n = 0 THEN {<<>>}
    ELSE LET shorter == SeqsUpTo(S, n - 1)
         IN  shorter \cup {Append(q, x) : q \in shorter, x \in S}

\* Values handed to coerceToString: scalars, objects with a name and a value
\* property, arrays of them.
Values ==
    LET strings == {Str(s) : s \in {<<>>, <<" ">>, <<"A">>, <<" ", "B", " ">>}}
        properties == {Undefined, Null, Num(7)} \cup strings
        objects == {Obj(name, value) : name \in properties,
                                       value \in properties}
        scalars == {Null, Bool(TRUE), Num(0), Num(42)} \cup strings
        arrays == {Arr(items) :
                     items \in SeqsUpTo(scalars \cup objects, MaxArrayLen)}
    IN  scalars \cup objects \cup arrays

\* Raw placeholder keys.
Keys ==
    Concats({<<"{", "{">>, <<"}", "}">>, <<" ">>, <<"a">>, <<"B">>},
            MaxKeyTokens)

\* Request bodies handed to normalizeMerge: the keys of one object are
\* distinct, three spellings collide on one canonical key.
RawBodies ==
    LET mergeKeys == {<<"{", "{", "P", "}", "}">>, <<"p">>, <<"C">>}
        mergeValues == {Str(<<"A">>), Str(<<" ", "B", " ">>), Str(<<>>)}
        bodyObjects ==
            {Entries(pairs) : pairs \in
                {q \in SeqsUpTo(mergeKeys \X mergeValues, MaxEntries) :
                    \A i, j \in 1..Len(q) : q[i][1] = q[j][1] => i = j}}
    IN  [placeholders : bodyObjects \cup {Undefined},
         mergeFields : bodyObjects \cup {Undefined},
         fields : {Undefined, Entries(<<<< <<"C">>, Str(<<"A">>) >>>>)}]

\* Raw identity inputs.
Domains ==
    Concats({<<"h", "t", "t", "p", ":", "/", "/">>, <<"w", "w", "w", ".">>,
             <<"X">>, <<"/">>, <<"?">>, <<" ">>},
            MaxDomainTokens)

Applied(fn, arg, ret) == [fn |-> fn, arg |-> arg, ret |-> ret]

\* One call of coerceToString.
ApplyCoerceToString ==
    /\ applied = NotApplied
    /\ \E val \in Values :
          applied' = Applied("coerceToString", val, coerceToString(val))
    /\ UNCHANGED <<promoteVars, routeVars, gmailVars, intakeVars>>

\* One call of normalizeKey.
ApplyNormalizeKey ==
    /\ applied = NotApplied
    /\ \E key \in Keys :
          applied' = Applied("normalizeKey", key, normalizeKey(key))
    /\ UNCHANGED <<promoteVars, routeVars, gmailVars, intakeVars>>

\* One call of normalizeMerge.
ApplyNormalizeMerge ==
    /\ applied = NotApplied
    /\ \E rawBody \in RawBodies :
          applied' = Applied("normalizeMerge", rawBody, normalizeMerge(rawBody))
    /\ UNCHANGED <<promoteVars, routeVars, gmailVars, intakeVars>>

\* One call of normalizeDomain.
ApplyNormalizeDomain ==
    /\ applied = NotApplied
    /\ \E input \in Domains :
          applied' = Applied("normalizeDomain", input, normalizeDomain(input))
    /\ UNCHANGED <<promoteVars, routeVars, gmailVars, intakeVars>>

NextUtil ==
    \/ ApplyCoerceToString
    \/ ApplyNormalizeKey
    \/ ApplyNormalizeMerge
    \/ ApplyNormalizeDomain

SpecUtil == Init /\ [][NextUtil]_vars

\* ========================================================================
\* Properties of the placeholder utilities and of identity normalization
\* ========================================================================

\* The canonical keys an object of the request body supplies.
CanonicalKeys(obj) ==
    IF obj = Undefined THEN {}
    ELSE {normalizeKey(obj[2][i][1]) : i \in 1..Len(obj[2])}

\* The coerced values an object supplies for one canonical key.
SuppliedFor(obj, canonical) ==
    {coerceToString(obj[2][i][2]) :
        i \in {j \in 1..Len(obj[2]) : normalizeKey(obj[2][j][1]) = canonical}}

\* C22: for every request body, a canonical key supplied by both the
\* placeholder object and the flat field object holds the placeholder
\* object's value in the merge map, never the flat field's; a key supplied
\* only by the flat field object is filled from it.
C22_PlaceholdersWin ==
    applied.fn = "normalizeMerge" =>
        LET placeholders == applied.arg.placeholders
            merge == Or(applied.arg.mergeFields, applied.arg.fields)
            out == applied.ret
        IN  \A canonical \in CanonicalKeys(merge) :
                IF canonical \in CanonicalKeys(placeholders)
                THEN canonical \in DOMAIN out =>
                        out[canonical] \in SuppliedFor(placeholders, canonical)
                ELSE (SuppliedFor(merge, canonical) # {Null}) =>
                        /\ canonical \in DOMAIN out
                        /\ out[canonical] \in SuppliedFor(merge, canonical)

\* A property that is a string with something left after trimming.
NonEmptyString(prop) == TypeOf(prop) = "string" /\ Trim(prop[2]) # <<>>

\* C23: for an object value, or an array whose element 0 is an object,
\* coercion returns the object's name if it is a non-empty string, else its
\* value if that is a non-empty string, else the serialization of the
\* object; element 0 alone decides the result of an array.
C23_NameThenValue ==
    applied.fn = "coerceToString" =>
        LET val == applied.arg
            obj == IF TypeOf(val) = "array" /\ val[2] # <<>>
                   THEN val[2][1] ELSE val
        IN  TypeOf(obj) = "object" =>
                applied.ret =
                    IF NonEmptyString(obj[2]) THEN Trim(obj[2][2])
                    ELSE IF NonEmptyString(obj[3]) THEN Trim(obj[3][2])
                    ELSE Stringify(obj)

\* A key written without braces.
Bare(key) == \A n \in 1..Len(key) : key[n] \notin {"{", "}"}

\* C24: key normalization is idempotent, normalizeKey(normalizeKey(k)) =
\* normalizeKey(k) for every string k, and the brace-wrapped form of a bare
\* key and the case variants of a key normalize to the same uppercase key.
C24_NormalizeKeyIdempotent ==
    applied.fn = "normalizeKey" =>
        /\ normalizeKey(applied.ret) = applied.ret
        /\ Bare(applied.arg) =>
              normalizeKey(<<"{", "{">> \o applied.arg \o <<"}", "}">>) = applied.ret
        /\ normalizeKey(ToLowerCase(applied.arg)) = applied.ret
        /\ normalizeKey(ToUpperCase(applied.arg)) = applied.ret

\* C25: identity-key normalization is idempotent: normalizing the key that
\* normalizeDomain returned for an input gives that key again.
C25_NormalizeDomainIdempotent ==
    applied.fn = "normalizeDomain" =>
        normalizeDomain(applied.ret) = applied.ret

\* ========================================================================
\* Properties of POST /api/pm-intake: duplicates
\* ========================================================================

\* C26: the endpoint is idempotent: the same item (same client, project,
\* type and title), submitted any number of times in one request or across
\* sequential requests, leaves at most one inbox record.  The handler reads
\* no field of an item to decide anything, so the items of a behaviour
\* stand for copies of one item and every record of pmInbox is a record of
\* that item.
C26_AtMostOneRecordPerItem == Cardinality(pmInbox) <= 1

\* ========================================================================
\* Properties of the promotion workflow: partial failures and re-runs
\* ========================================================================

\* C27: when a promotion run has ended with ok = false, every child record
\* the run created in RecordStore is listed in createdTasks or
\* createdDecisions of its response, also when a batch went out in several
\* chunks and a later chunk failed or the count did not match.
C27_CreatedChildrenListed ==
    \A p \in Runs :
        (pc[p] = "done" /\ ~result[p].ok) =>
            /\ effects[p].tasks \subseteq Range(result[p].createdTasks)
            /\ effects[p].decisions \subseteq Range(result[p].createdDecisions)

\* C27 (amended): the response of a run that ended with ok = false lists
\* the children of the batches that fully succeeded and nothing else: the
\* ids in createdTasks are tasks the run created; a run stopped in the
\* decision step lists every task it created; a run stopped in the task
\* step lists no task, whatever its chunks committed; and no failed run
\* lists a decision.
C27_SucceededBatchesListed ==
    \A p \in Runs :
        (pc[p] = "done" /\ ~result[p].ok) =>
            /\ Range(result[p].createdTasks) \subseteq effects[p].tasks
            /\ result[p].createdDecisions = <<>>
            /\ result[p].error \in
                 {"Decision creation failed", "Decision creation mismatch"} =>
                   /\ Len(result[p].createdTasks) = tasksToCreate[p]
                   /\ Range(result[p].createdTasks) = effects[p].tasks
            /\ result[p].error \in
                 {"Task creation failed", "Task creation mismatch"} =>
                   result[p].createdTasks = <<>>

\* The first chunk of a task batch was committed, a later chunk failed: the
\* records exist and the response lists none of them.
C27_Witness ==
    \E p \in Runs :
        /\ pc[p] = "done"
        /\ ~result[p].ok
        /\ result[p].error = "Task creation failed"
        /\ tasksToCreate[p] > batchSize
        /\ Cardinality(effects[p].tasks) >= batchSize
        /\ effects[p].tasks \subseteq tasks
        /\ result[p].createdTasks = <<>>

\* C28 (as stated): when two promotion requests for the same source record
\* with the same payload run concurrently, each declared task and decision
\* is created at most once in total across both runs, and at most one of
\* the runs reports the source as deleted.
C28_OnceAcrossRuns ==
    \A p, q \in Runs :
        (p # q /\ pc[p] # "idle" /\ pc[q] # "idle") =>
            /\ Cardinality(effects[p].tasks \cup effects[q].tasks)
                  <= tasksToCreate[p]
            /\ Cardinality(effects[p].decisions \cup effects[q].decisions)
                  <= decisionsToCreate[p]
            /\ ~(result[p].inboxDeleted /\ result[q].inboxDeleted)

\* C28 (amended): each of the concurrent runs creates every declared task
\* and decision at most once, the records of one run are never those of
\* another (nothing ties a child to a child an earlier run created), and at
\* most one run reports the source as deleted, the run whose delete call
\* removed it.
C28_OncePerRunOneDelete ==
    \A p, q \in Runs :
        /\ Cardinality(effects[p].tasks) <= tasksToCreate[p]
        /\ Cardinality(effects[p].decisions) <= decisionsToCreate[p]
        /\ result[p].inboxDeleted <=> deletedBy[p]
        /\ p # q =>
             /\ effects[p].tasks \cap effects[q].tasks = {}
             /\ effects[p].decisions \cap effects[q].decisions = {}
             /\ ~(result[p].inboxDeleted /\ result[q].inboxDeleted)

\* Both runs created the declared task and decision; one deleted the
\* source, the delete of the other failed.
C28_Witness ==
    \E p, q \in Runs :
        /\ p # q
        /\ pc[p] = "done" /\ pc[q] = "done"
        /\ tasksToCreate[p] = 1 /\ decisionsToCreate[p] = 1
        /\ Cardinality(effects[p].tasks \cup effects[q].tasks) = 2
        /\ Cardinality(effects[p].decisions \cup effects[q].decisions) = 2
        /\ result[p].inboxDeleted
        /\ result[q].ok
        /\ result[q].error = "Records created but inbox deletion failed"

\* Run p stopped with a partial failure: the task batch was committed, the
\* decision batch failed, the source was kept.
PartialFailure(p) ==
    /\ pc[p] = "done"
    /\ result[p].error \in
         {"Decision creation failed", "Decision creation mismatch"}
    /\ tasksToCreate[p] > 0

\* Run q is a later run of the same request that succeeded.
RerunSucceeded(p, q) ==
    /\ p < q
    /\ pc[q] = "done"
    /\ result[q].ok
    /\ result[q].inboxDeleted

\* C29 (as stated): after a partial failure, re-running the promotion with
\* the same payload until it succeeds leaves exactly one child record per
\* declared task and per declared decision.
C29_RerunCreatesNothingTwice ==
    \A p, q \in Runs :
        (PartialFailure(p) /\ RerunSucceeded(p, q)) =>
            /\ Cardinality(tasks) = tasksToCreate[q]
            /\ Cardinality(decisions) = decisionsToCreate[q]

\* C29 (amended): the re-run that succeeds creates every declared task and
\* decision anew: the tasks the failed run committed stay in RecordStore
\* next to the tasks of the re-run, so every declared task exists once per
\* run that got past the task step.
C29_RerunCreatesTasksAgain ==
    \A p, q \in Runs :
        (PartialFailure(p) /\ RerunSucceeded(p, q)) =>
            /\ Cardinality(effects[p].tasks) = tasksToCreate[p]
            /\ Cardinality(effects[q].tasks) = tasksToCreate[q]
            /\ Cardinality(effects[q].decisions) = decisionsToCreate[q]
            /\ effects[p].tasks \cap effects[q].tasks = {}
            /\ (effects[p].tasks \cup effects[q].tasks) \subseteq tasks
            /\ Cardinality(tasks) >= 2 * tasksToCreate[q]
            /\ (effects[p].decisions \cup effects[q].decisions)
                  \subseteq decisions
            /\ inboxRecordId[q] \notin inbox

\* The first run committed its task and failed in the decision step, the
\* second run succeeded: two task records for the one declared task.
C29_Witness ==
    /\ PartialFailure(1)
    /\ RerunSucceeded(1, 2)
    /\ tasksToCreate[2] = 1
    /\ decisionsToCreate[2] = 1
    /\ Cardinality(tasks) = 2
    /\ result[1].createdTasks # result[2].createdTasks

\* ========================================================================
\* Properties of POST /api/inbox/email: concurrent duplicates
\* ========================================================================

\* C30: when duplicate deliveries of one message are processed
\* concurrently, the Activity Log of the existing Inbox Item afterwards
\* holds the line of every delivery that was answered "duplicate": no
\* appended line is lost.
C30_NoAppendLost ==
    \A r \in Reqs :
        (rpc[r] = "done" /\ response[r].status = "duplicate") =>
            LET log == inboxItems[response[r].inboxItem].activityLog
            IN  \E n \in 1..Len(log) :
                    /\ log[n].entry = "Duplicate ingestion attempt"
                    /\ log[n].traceId = r

====
